---- MODULE Spec2Model ----
(***************************************************************************)
(* A model of Ontap.py, the wrapper around the NetApp ONTAP API.           *)
(*                                                                         *)
(* The appliance and its session object (NaServer / NaElement) are the     *)
(* environment: the session answers every invocation with a results        *)
(* element that is either failed (errno, reason) or passed (children).     *)
(* Every method of Filer, Export and FlexVol that is modelled is one       *)
(* action; the action records the method and its arguments in op, the      *)
(* session invocations it made in calls, and what it returned or raised    *)
(* in ret.                                                                 *)
(*                                                                         *)
(* Strings the code only passes along are TLA+ strings; strings the code   *)
(* takes apart (volume names, option names, numbers in text) are           *)
(* sequences of one-character strings.                                     *)
(***************************************************************************)
EXTENDS Integers, Sequences, FiniteSets, TLC

VARIABLES
    op,         \* the last operation: [name |-> ..., <its arguments>]
    calls,      \* the session invocations of the last operation: <<[req, out]>>
    ret,        \* the outcome of the last operation: Return(v) or Raise(e)
    rules,      \* appliance: export path -> exports-rule-info element or NoneElem
    autodelete, \* appliance: the snapshot autodelete options of the volume
    autosize,   \* appliance: the autosize settings of the volume, sizes in KB
    sis,        \* appliance: the deduplication state of the volume
    shares,     \* appliance: CIFS share name -> its listing line, or NoShare
    handles,    \* the program's long-lived objects: handle -> its fields
    defaults,   \* the default host lists of create_rule / modify_rule (shared objects)
    snapvault,  \* appliance: the SnapVault snapshot schedules of the volume
    script      \* the backup script: where it is and what it has done

vars == <<op, calls, ret, rules, autodelete, autosize, sis, shares, handles, defaults,
          snapvault, script>>

----------------------------------------------------------------------------
(* Python values *)

PyNone == [t |-> "None"]
PyBool(b) == [t |-> "bool", b |-> b]
PyStr(s) == [t |-> "str", s |-> s]
PyInt(i) == [t |-> "int", i |-> i]
PyList(l) == [t |-> "list", l |-> l]
PyDict(d) == [t |-> "dict", d |-> d]
PyElem(e) == [t |-> "NaElement", e |-> e]

Return(v) == [kind |-> "return", value |-> v]
Raise(e) == [kind |-> "raise", exc |-> e]

OntapApiException(errno, reason) ==
    [class |-> "OntapApiException", errno |-> errno, reason |-> reason]
OntapException(reason) == [class |-> "OntapException", reason |-> reason]
AttributeError == [class |-> "AttributeError"]
ValueError == [class |-> "ValueError"]

NoOp == [name |-> "none"]
NoRet == [kind |-> "none"]

----------------------------------------------------------------------------
(* NaElement: the request and response trees *)

NaElement(name, content) == [name |-> name, content |-> content, children |-> <<>>]
Node(name, children) == [name |-> name, content |-> "", children |-> children]

\* what child_get returns when no child has the name (Python's None)
NoneElem == [name |-> "#None", content |-> "", children |-> <<>>]
\* what child_get_string returns when no child has the name (Python's None)
NoneStr == "#None"

child_add(e, c) == [e EXCEPT !.children = Append(@, c)]

ChildIndexes(e, name) == {i \in 1..Len(e.children) : e.children[i].name = name}

Least(S) == CHOOSE i \in S : \A j \in S : i <= j

child_get(e, name) ==
    IF ChildIndexes(e, name) = {} THEN NoneElem
    ELSE e.children[Least(ChildIndexes(e, name))]

child_get_string(e, name) ==
    IF ChildIndexes(e, name) = {} THEN NoneStr
    ELSE e.children[Least(ChildIndexes(e, name))].content

children_get(e) == e.children

\* The results element of the session: status, and errno and reason when failed.
Passed(children) ==
    [name |-> "results", content |-> "", children |-> children,
     status |-> "passed", errno |-> "", reason |-> ""]
Failed(errno, reason) ==
    [name |-> "results", content |-> "", children |-> <<>>,
     status |-> "failed", errno |-> errno, reason |-> reason]

results_status(out) == out.status
results_errno(out) == out.errno
results_reason(out) == out.reason

\* NaServer.invoke(api, k1, v1, ...) sends the element api with one child per pair.
RECURSIVE PairChildren(_)
PairChildren(pairs) ==
    IF Len(pairs) < 2 THEN <<>>
    ELSE <<NaElement(pairs[1], pairs[2])>> \o PairChildren(SubSeq(pairs, 3, Len(pairs)))

ApiRequest(api, pairs) == Node(api, PairChildren(pairs))

----------------------------------------------------------------------------
(* The session: what the appliance may answer *)

Errnos == {"13040", "13001", "2", "13011"}
Reasons == {"unable to find volume", "No such volume"}
Failures == {Failed(e, r) : e \in Errnos, r \in Reasons}

\* What the appliance answers on success, per operation, when its state is not modelled.
SisStates == {"Enabled", "Disabled", "Disabling"}
CachePolicies == {"keep", "reuse", "default"}

SuccessChildren(api) ==
    CASE api = "sis-status" ->
           {<<Node("sis-object",
                   <<Node("dense-status", <<NaElement("state", s)>>)>>)>> : s \in SisStates}
      [] api = "priority-list-info-volume" ->
           {<<Node("priority-volume",
                   <<Node("priority-volume.info",
                          <<NaElement("cache-policy", c)>>)>>)>> : c \in CachePolicies}
      [] api = "system-get-version" -> {<<NaElement("version", "NetApp Release 8.1")>>}
      [] api = "system-cli" ->
           {<<NaElement("cli-output", "output"), NaElement("cli-result-value", "0")>>}
      [] OTHER -> {<<>>}

\* The session's answer to a request: a failure, or the operation's result.
Answers(req) == Failures \cup {Passed(ch) : ch \in SuccessChildren(req.name)}

Call(req, out) == [req |-> req, out |-> out]

----------------------------------------------------------------------------
(* Strings as sequences of characters *)

NL == "\n"
VolPrefix == <<"/", "v", "o", "l", "/">>

NoNewline(s) == \A i \in 1..Len(s) : s[i] # NL

\* re.match('^/vol/(.+)$', name): <<>> when there is no match, else <<groups()[0]>>.
\* '.' matches no line break, and '$' matches at the end and before a final line break.
ReMatchVol(name) ==
    IF Len(name) > Len(VolPrefix) /\ SubSeq(name, 1, Len(VolPrefix)) = VolPrefix
    THEN LET rest == SubSeq(name, Len(VolPrefix) + 1, Len(name))
             init == SubSeq(rest, 1, Len(rest) - 1)
         IN  IF NoNewline(rest) THEN <<rest>>
             ELSE IF Len(init) >= 1 /\ rest[Len(rest)] = NL /\ NoNewline(init)
                  THEN <<init>>
                  ELSE <<>>
    ELSE <<>>

Digits == <<"0", "1", "2", "3", "4", "5", "6", "7", "8", "9">>

IsDigit(c) == \E d \in 1..Len(Digits) : Digits[d] = c
DigitValue(c) == (CHOOSE d \in 1..Len(Digits) : Digits[d] = c) - 1

\* str(n) for a natural number n
RECURSIVE StrOfNat(_)
StrOfNat(n) ==
    IF n < Len(Digits) THEN <<Digits[n + 1]>>
    ELSE StrOfNat(n \div Len(Digits)) \o <<Digits[(n % Len(Digits)) + 1]>>

\* whether int(s) is defined: here, for the unsigned decimal numerals
IsNumeral(s) == Len(s) > 0 /\ \A i \in 1..Len(s) : IsDigit(s[i])

\* int(s) for a numeral s
RECURSIVE IntOfStr(_)
IntOfStr(s) ==
    IF Len(s) = 0 THEN 0
    ELSE IntOfStr(SubSeq(s, 1, Len(s) - 1)) * Len(Digits) + DigitValue(s[Len(s)])

\* Python's 'sub in s' for two strings
IsSubstring(sub, s) ==
    \E i \in 0..(Len(s) - Len(sub)) : SubSeq(s, i + 1, i + Len(sub)) = sub

\* str(v): how a value given as an argument goes on the wire
PyToStr(v) == IF v.t = "int" THEN StrOfNat(v.i) ELSE v.s

PyTuple(l) == [t |-> "tuple", l |-> l]

\* Python's 'name in container': a substring test when the container is a string
PyIn(name, container) ==
    IF container.t = "str" THEN IsSubstring(name, container.s)
    ELSE \E i \in 1..Len(container.l) : container.l[i] = name

----------------------------------------------------------------------------
(* class Filer: the invocation wrappers *)

Filer_invoke(out) ==
    IF results_status(out) = "failed"
    THEN Raise(OntapApiException(results_errno(out), results_reason(out)))
    ELSE Return(PyElem(out))

Filer_invoke_elem(out) ==
    IF results_status(out) = "failed"
    THEN Raise(OntapApiException(results_errno(out), results_reason(out)))
    ELSE Return(PyElem(out))

CliRequest(cli_args) ==
    Node("system-cli",
         <<Node("args", [i \in 1..Len(cli_args) |-> NaElement("arg", cli_args[i])])>>)

\* a wrapper that hands the failed results element back instead of raising
Filer_invoke_cli_unchecked(out) == Return(PyElem(out))

Filer_invoke_cli(out) ==
    IF results_status(out) = "failed"
    THEN Raise(OntapApiException(results_errno(out), results_reason(out)))
    ELSE Return(PyElem(out))

\* a has_volume that takes every fault for absence
Filer_has_volume_any_errno(r) ==
    IF r.kind = "raise" THEN Return(PyBool(FALSE)) ELSE Return(PyBool(TRUE))

\* r is what self.invoke('volume-list-info', 'volume', name) returned or raised
Filer_has_volume(r) ==
    IF r.kind = "raise"
    THEN IF r.exc.errno = "13040" THEN Return(PyBool(FALSE)) ELSE r
    ELSE Return(PyBool(TRUE))

----------------------------------------------------------------------------
(* class FlexVol *)

\* a constructor that keeps the name it is given
FlexVol_init_no_strip(name) == [class |-> "FlexVol", name |-> name, path |-> VolPrefix \o name]

\* a constructor that strips the prefix and builds the path from the string it was given
FlexVol_init_path_from_arg(name) ==
    LET m == ReMatchVol(name)
        n == IF m # <<>> THEN m[1] ELSE name
    IN  [class |-> "FlexVol", name |-> n, path |-> VolPrefix \o name]

FlexVol_init(name) ==
    LET m == ReMatchVol(name)
        n == IF m # <<>> THEN m[1] ELSE name
    IN  [class |-> "FlexVol", name |-> n, path |-> VolPrefix \o n]

PyStrOrNone(s) == IF s = NoneStr THEN PyNone ELSE PyStr(s)

\* a get_sis_state that folds the absent-volume code 13040 instead of 13001
FlexVol_get_sis_state_wrong_errno(r) ==
    IF r.kind = "raise"
    THEN IF r.exc.errno = "13040" THEN Return(PyStr("Disabled")) ELSE r
    ELSE LET so == child_get(r.value.e, "sis-object")
             ds == child_get(so, "dense-status")
         IN  IF so = NoneElem \/ ds = NoneElem THEN Raise(AttributeError)
             ELSE Return(PyStrOrNone(child_get_string(ds, "state")))

\* r is what self.filer.invoke('sis-status', 'path', self.path) returned or raised
FlexVol_get_sis_state(r) ==
    IF r.kind = "raise"
    THEN IF r.exc.errno = "13001" THEN Return(PyStr("Disabled")) ELSE r
    ELSE LET so == child_get(r.value.e, "sis-object")
             ds == child_get(so, "dense-status")
         IN  IF so = NoneElem \/ ds = NoneElem THEN Raise(AttributeError)
             ELSE Return(PyStrOrNone(child_get_string(ds, "state")))

\* a get_priority_cache_policy that defaults on the error code alone
FlexVol_get_priority_cache_policy_code_only(r) ==
    IF r.kind = "raise"
    THEN IF r.exc.errno = "2" THEN Return(PyStr("default")) ELSE r
    ELSE LET pv == child_get(r.value.e, "priority-volume")
             pvi == child_get(pv, "priority-volume.info")
         IN  IF pv = NoneElem \/ pvi = NoneElem THEN Raise(AttributeError)
             ELSE Return(PyStrOrNone(child_get_string(pvi, "cache-policy")))

\* r is what self.filer.invoke('priority-list-info-volume', 'volume', self.name) gave
FlexVol_get_priority_cache_policy(r) ==
    IF r.kind = "raise"
    THEN IF r.exc.reason = "unable to find volume" /\ r.exc.errno = "2"
         THEN Return(PyStr("default"))
         ELSE r
    ELSE LET pv == child_get(r.value.e, "priority-volume")
             pvi == child_get(pv, "priority-volume.info")
         IN  IF pv = NoneElem \/ pvi = NoneElem THEN Raise(AttributeError)
             ELSE Return(PyStrOrNone(child_get_string(pvi, "cache-policy")))

----------------------------------------------------------------------------
(* class Filer: the decoding helpers *)

\* a _xmltree_to_list that tests the value's truth ('if inner_val:') and so drops ''
Filer_xmltree_to_list_drops_empty(nae, outer_name, inner_name) ==
    IF child_get(nae, outer_name) # NoneElem
    THEN LET items == children_get(child_get(nae, outer_name))
             inner == [i \in 1..Len(items) |-> child_get_string(items[i], inner_name)]
         IN  SelectSeq(inner, LAMBDA v : v # NoneStr /\ v # "")
    ELSE <<>>

\* _xmltree_to_list, for nae an NaElement: the inner values under nae's outer child
Filer_xmltree_to_list(nae, outer_name, inner_name) ==
    IF child_get(nae, outer_name) # NoneElem
    THEN LET items == children_get(child_get(nae, outer_name))
             inner == [i \in 1..Len(items) |-> child_get_string(items[i], inner_name)]
         IN  SelectSeq(inner, LAMBDA v : v # NoneStr)
    ELSE <<>>

\* the loop of _xmltree_to_dict over the option elements, options the dict so far
RECURSIVE XmltreeToDictLoop(_, _, _, _, _)
XmltreeToDictLoop(items, int_values, key, value, options) ==
    IF items = <<>> THEN Return(PyDict(options))
    ELSE LET option == Head(items)
             name == child_get_string(option, key)
             text == child_get_string(option, value)
             Put(v) == [n \in DOMAIN options \cup {name} |->
                           IF n = name THEN v ELSE options[n]]
         IN  IF PyIn(name, int_values)
             THEN IF IsNumeral(text)      \* child_get_int: int(child_get_string(value))
                  THEN XmltreeToDictLoop(Tail(items), int_values, key, value,
                                         Put(PyInt(IntOfStr(text))))
                  ELSE Raise(ValueError)
             ELSE XmltreeToDictLoop(Tail(items), int_values, key, value, Put(PyStr(text)))

\* _xmltree_to_dict, for out an NaElement
Filer_xmltree_to_dict(out, int_values, key, value) ==
    IF child_get(out, "options") = NoneElem THEN Raise(AttributeError)
    ELSE XmltreeToDictLoop(children_get(child_get(out, "options")), int_values, key,
                           value, <<>>)

----------------------------------------------------------------------------
(* class Export *)

Export_init(filer, path) == [class |-> "Export", path |-> path]

\* Python's truth value of what _get_rules returns: an NaElement (true), None or False
Truthy(v) == v.t = "NaElement"

\* r is what self.filer.invoke('nfs-exportfs-list-rules', 'pathname', self.path) gave
Export_get_rules(r) ==
    IF r.kind = "raise" THEN r
    ELSE LET rs == child_get(r.value.e, "rules") IN
         IF rs = NoneElem THEN Return(PyBool(FALSE))       \* except AttributeError
         ELSE IF child_get(rs, "exports-rule-info") = NoneElem THEN Return(PyNone)
         ELSE Return(PyElem(child_get(rs, "exports-rule-info")))

\* a configured that takes everything but False for a rule (None included)
Export_configured_not_false(g) ==
    IF g.kind = "raise" THEN g
    ELSE IF g.value # PyBool(FALSE) THEN Return(PyBool(TRUE)) ELSE Return(PyBool(FALSE))

\* g is what self._get_rules() returned or raised
Export_configured(g) ==
    IF g.kind = "raise" THEN g
    ELSE IF Truthy(g.value) THEN Return(PyBool(TRUE)) ELSE Return(PyBool(FALSE))

\* a get_nosuid that answers False, not '', when there is no rule
Export_get_nosuid_false_when_absent(g) ==
    IF g.kind = "raise" THEN g
    ELSE IF Truthy(g.value)
         THEN Return(PyBool(child_get_string(g.value.e, "nosuid") = "true"))
         ELSE Return(PyBool(FALSE))

Export_get_nosuid(g) ==
    IF g.kind = "raise" THEN g
    ELSE IF Truthy(g.value)
         THEN IF child_get(g.value.e, "nosuid") # NoneElem
              THEN IF child_get_string(g.value.e, "nosuid") = "true"
                   THEN Return(PyBool(TRUE))
                   ELSE Return(PyBool(FALSE))
              ELSE Return(PyBool(FALSE))
         ELSE Return(PyStr(""))

Export_get_ro_hosts(g) ==
    IF g.kind = "raise" THEN g
    ELSE IF Truthy(g.value)
         THEN Return(PyList(Filer_xmltree_to_list(g.value.e, "read-only", "name")))
         ELSE Return(PyList(<<>>))

\* rules.child_get raises AttributeError when rules is None or False
Export_get_rw_hosts(g) ==
    IF g.kind = "raise" THEN g
    ELSE IF g.value.t # "NaElement" THEN Raise(AttributeError)
         ELSE Return(PyList(Filer_xmltree_to_list(g.value.e, "read-write", "name")))

Export_get_root_hosts(g) ==
    IF g.kind = "raise" THEN g
    ELSE IF g.value.t # "NaElement" THEN Raise(AttributeError)
         ELSE Return(PyList(Filer_xmltree_to_list(g.value.e, "root", "name")))

HostListElem(elem, hosts) ==
    Node(elem, [i \in 1..Len(hosts) |->
                   Node("exports-hostname-info", <<NaElement("name", hosts[i])>>)])

RECURSIVE AddHostLists(_, _)
AddHostLists(rule_info, host_lists) ==
    IF host_lists = <<>> THEN rule_info
    ELSE AddHostLists(
           IF Len(host_lists[1][2]) > 0
           THEN child_add(rule_info, HostListElem(host_lists[1][1], host_lists[1][2]))
           ELSE rule_info,
           Tail(host_lists))

\* the exports-rule-info element create_rule builds; sec_flavor is accepted and not used
\* (host_lists is a dict: the order of its three elements is the interpreter's, and
\* the appliance looks them up by name)
CreateRuleInfo(path, nosuid, root_hosts, ro_hosts, rw_hosts, sec_flavor) ==
    LET nosuid_val == IF nosuid THEN "true" ELSE "false"
        rule_info == Node("exports-rule-info",
                          <<NaElement("nosuid", nosuid_val), NaElement("pathname", path)>>)
    IN  AddHostLists(rule_info, <<<<"root", root_hosts>>,
                                  <<"read-only", ro_hosts>>,
                                  <<"read-write", rw_hosts>>>>)

CreateRuleRequest(path, nosuid, root_hosts, ro_hosts, rw_hosts, sec_flavor) ==
    Node("nfs-exportfs-append-rules",
         <<NaElement("persistent", "true"),
           Node("rules", <<CreateRuleInfo(path, nosuid, root_hosts, ro_hosts,
                                          rw_hosts, sec_flavor)>>)>>)

\* r is what self.filer.invoke_elem(nfs_export) returned or raised
Export_create_rule(r) == IF r.kind = "raise" THEN r ELSE Return(PyNone)

DeleteRuleRequest(path) ==
    Node("nfs-exportfs-delete-rules",
         <<NaElement("persistent", "true"),
           Node("pathnames", <<Node("pathname-info", <<NaElement("name", path)>>)>>)>>)

Export_delete_rule(r) == IF r.kind = "raise" THEN r ELSE Return(PyNone)

----------------------------------------------------------------------------
(* The appliance's export rules: what the session answers to the Export requests *)

AllHosts == Node("exports-hostname-info", <<NaElement("all-hosts", "true")>>)
DefaultSecFlavor == Node("sec-flavor", <<Node("sec-flavor-info", <<NaElement("flavor", "sys")>>)>>)

\* The rule the appliance keeps for a rule sent to it: 'By default, if no read-only or
\* read-write hosts are given, then read-write access is granted to all hosts'.
StoredRule(rule_info) ==
    LET rw == IF child_get(rule_info, "read-only") = NoneElem
                 /\ child_get(rule_info, "read-write") = NoneElem
              THEN child_add(rule_info, Node("read-write", <<AllHosts>>))
              ELSE rule_info
    IN  IF child_get(rw, "sec-flavor") = NoneElem THEN child_add(rw, DefaultSecFlavor) ELSE rw

\* A rule as the appliance lists it: an optional field at its default may be left out.
Listed(rule) ==
    {rule} \cup
    (IF child_get_string(rule, "nosuid") = "false"
     THEN {[rule EXCEPT !.children = SelectSeq(@, LAMBDA c : c.name # "nosuid")]}
     ELSE {})

ListRulesAnswers(path) ==
    IF rules[path] = NoneElem
    THEN {Passed(<<>>), Passed(<<Node("rules", <<>>)>>)}
    ELSE {Passed(<<Node("rules", <<r>>)>>) : r \in Listed(rules[path])}

ExportFailures == {Failed("13011", "No such volume")}

----------------------------------------------------------------------------
(* class FlexVol: the snapshot autodelete options *)

TargetFreeSpace ==
    <<"t", "a", "r", "g", "e", "t", "_", "f", "r", "e", "e", "_", "s", "p", "a", "c", "e">>
StateOption == <<"s", "t", "a", "t", "e">>

\* int_values = ('target_free_space'): parentheses around one string, so a string
AutodeleteIntValues == PyStr(TargetFreeSpace)

\* r is what self.filer.invoke('snapshot-autodelete-list-info', 'volume', self.name) gave
FlexVol_get_snap_autodelete(r) ==
    IF r.kind = "raise" THEN r
    ELSE Filer_xmltree_to_dict(r.value.e, AutodeleteIntValues, "option-name", "option-value")

SetAutodeleteRequest(self, option_name, value) ==
    Node("snapshot-autodelete-set-option",
         <<NaElement("option-name", option_name),
           NaElement("option-value", PyToStr(value)),
           NaElement("volume", self.name)>>)

\* r is what self.filer.invoke('snapshot-autodelete-set-option', ...) returned or raised
FlexVol_set_snap_autodelete_option(r) == IF r.kind = "raise" THEN r ELSE Return(PyNone)

----------------------------------------------------------------------------
(* The appliance's snapshot autodelete options *)

AutodeleteInfo(o) ==
    Node("snapshot-autodelete-info",
         <<NaElement("option-name", o.name), NaElement("option-value", o.value)>>)

AutodeleteListAnswer ==
    Passed(<<Node("options", [i \in 1..Len(autodelete) |-> AutodeleteInfo(autodelete[i])])>>)

\* The appliance keeps whatever option it is sent, except that it refuses a
\* target_free_space (a percentage) that is not a number.
AutodeleteAccepts(req) ==
    child_get_string(req, "option-name") = TargetFreeSpace
      => IsNumeral(child_get_string(req, "option-value"))

\* the appliance's options after it passed a set-option request
AutodeleteAfterSet(req) ==
    LET n == child_get_string(req, "option-name")
        v == child_get_string(req, "option-value")
    IN  IF \E i \in 1..Len(autodelete) : autodelete[i].name = n
        THEN [i \in 1..Len(autodelete) |->
                 IF autodelete[i].name = n THEN [name |-> n, value |-> v]
                 ELSE autodelete[i]]
        ELSE Append(autodelete, [name |-> n, value |-> v])

AutodeleteFailures == {Failed("13011", "No such volume")}

\* the options of a volume nobody has configured
AutodeleteDefaults ==
    <<[name |-> StateOption, value |-> <<"o", "f", "f">>],
      [name |-> TargetFreeSpace, value |-> <<"2", "0">>]>>

----------------------------------------------------------------------------
(* class FlexVol: autosize and deduplication *)

TypeError == [class |-> "TypeError"]

\* NaElement.child_get_int(name): int(child_get_string(name))
child_get_int(e, name) ==
    LET s == child_get_string(e, name) IN
    IF s = NoneStr THEN Raise(TypeError)
    ELSE IF IsNumeral(s) THEN Return(PyInt(IntOfStr(s)))
    ELSE Raise(ValueError)

\* Python's truth value of an argument: False, None, 0 and '' are false
PyTruth(v) ==
    CASE v.t = "bool" -> v.b
      [] v.t = "None" -> FALSE
      [] v.t = "int" -> v.i # 0
      [] v.t = "str" -> v.s # <<>>
      [] v.t = "list" -> v.l # <<>>
      [] OTHER -> TRUE

KbPerGb == 1024 * 1024

\* the interpreters the code runs under: round() of a tie goes away from zero under
\* Python 2 and to the even neighbour under Python 3
PythonVersions == {2, 3}

\* int(round(kb / 1024. / 1024.)) for kb >= 0 (the two divisions by powers of two are
\* exact for every kb below 2^53)
PyRoundGb(py, kb) ==
    LET q == kb \div KbPerGb
        twice == 2 * (kb % KbPerGb)
    IN  IF twice < KbPerGb THEN q
        ELSE IF twice > KbPerGb THEN q + 1
        ELSE IF py = 2 THEN q + 1
        ELSE IF q % 2 = 0 THEN q ELSE q + 1

AutosizeGetRequest(self) == ApiRequest("volume-autosize-get", <<"volume", self.name>>)

\* r is what self.filer.invoke('volume-autosize-get', 'volume', self.name) gave
FlexVol_get_autosize_increment(r) ==
    IF r.kind = "raise" THEN r ELSE child_get_int(r.value.e, "increment-size")

FlexVol_get_autosize_max_size(r) ==
    IF r.kind = "raise" THEN r ELSE child_get_int(r.value.e, "maximum-size")

\* a conversion that drops the fraction instead of rounding
FlexVol_get_autosize_increment_gb_truncated(py, g) ==
    IF g.kind = "raise" THEN g
    ELSE Return(PyStr(StrOfNat(g.value.i \div KbPerGb) \o <<"g">>))

\* g is what self.get_autosize_increment() returned or raised
FlexVol_get_autosize_increment_gb(py, g) ==
    IF g.kind = "raise" THEN g
    ELSE Return(PyStr(StrOfNat(PyRoundGb(py, g.value.i)) \o <<"g">>))

\* g is what self.get_autosize_max_size() returned or raised
FlexVol_get_autosize_max_size_gb(py, g) ==
    IF g.kind = "raise" THEN g
    ELSE Return(PyStr(StrOfNat(PyRoundGb(py, g.value.i)) \o <<"g">>))

\* a set_autosize_state that sets the maximum only when no increment is given
AutosizeSetRequests_elif(self, enabled, increment_size, maximum_size) ==
    <<ApiRequest("volume-autosize-set",
                 <<"volume", self.name,
                   "is-enabled", IF PyTruth(enabled) THEN "true" ELSE "false">>)>>
    \o (IF PyTruth(increment_size)
        THEN <<ApiRequest("volume-autosize-set",
                          <<"volume", self.name, "increment-size", increment_size.s>>)>>
        ELSE IF PyTruth(maximum_size)
             THEN <<ApiRequest("volume-autosize-set",
                               <<"volume", self.name, "maximum-size", maximum_size.s>>)>>
             ELSE <<>>)

\* the invocations set_autosize_state makes when none of them faults, in its order
AutosizeSetRequests(self, enabled, increment_size, maximum_size) ==
    <<ApiRequest("volume-autosize-set",
                 <<"volume", self.name,
                   "is-enabled", IF PyTruth(enabled) THEN "true" ELSE "false">>)>>
    \o (IF PyTruth(increment_size)
        THEN <<ApiRequest("volume-autosize-set",
                          <<"volume", self.name, "increment-size", increment_size.s>>)>>
        ELSE <<>>)
    \o (IF PyTruth(maximum_size)
        THEN <<ApiRequest("volume-autosize-set",
                          <<"volume", self.name, "maximum-size", maximum_size.s>>)>>
        ELSE <<>>)

\* set_autosize_state, for cs the invocations it made and their results: the fault of
\* the last one when it failed, None otherwise
FlexVol_set_autosize_state(cs) ==
    LET last == Filer_invoke(cs[Len(cs)].out) IN
    IF last.kind = "raise" THEN last ELSE Return(PyNone)

\* a set_sis_state that sends every unknown state to sis-disable
SisRequest_unknown_disables(self, state) ==
    IF state = "enabled" \/ state = "Enabled"
    THEN <<ApiRequest("sis-enable", <<"path", self.path>>)>>
    ELSE <<ApiRequest("sis-disable", <<"path", self.path>>)>>

\* the invocation set_sis_state makes for a state: none for an unknown one
SisRequest(self, state) ==
    IF state = "enabled" \/ state = "Enabled"
    THEN <<ApiRequest("sis-enable", <<"path", self.path>>)>>
    ELSE IF state = "disabled" \/ state = "Disabled"
         THEN <<ApiRequest("sis-disable", <<"path", self.path>>)>>
         ELSE <<>>

\* set_sis_state, for cs the invocations it made and their results
FlexVol_set_sis_state(cs) ==
    IF cs = <<>> THEN Raise(OntapException("Unknown sis state."))
    ELSE IF Filer_invoke(cs[1].out).kind = "raise" THEN Filer_invoke(cs[1].out)
         ELSE Return(PyNone)

----------------------------------------------------------------------------
(* The appliance's autosize settings and deduplication state *)

\* the KB in one unit of a size: 'k', 'm', 'g' or 't'
UnitKb(c) ==
    CASE c = "k" -> 1
      [] c = "m" -> 1024
      [] c = "g" -> 1024 * 1024
      [] c = "t" -> 1024 * 1024 * 1024

IsUnit(c) == c \in {"k", "m", "g", "t"}

\* the KB of a size; without a unit the number is in KB
SizeKb(s) ==
    IF IsUnit(s[Len(s)]) THEN IntOfStr(SubSeq(s, 1, Len(s) - 1)) * UnitKb(s[Len(s)])
    ELSE IntOfStr(s)

\* the settings after the appliance passed a volume-autosize-set request: it changes
\* the fields the request carries and no other
AutosizeAfterSet(settings, req) ==
    [enabled |-> IF child_get(req, "is-enabled") # NoneElem
                 THEN child_get_string(req, "is-enabled") ELSE settings.enabled,
     increment |-> IF child_get(req, "increment-size") # NoneElem
                   THEN SizeKb(child_get_string(req, "increment-size"))
                   ELSE settings.increment,
     maximum |-> IF child_get(req, "maximum-size") # NoneElem
                 THEN SizeKb(child_get_string(req, "maximum-size"))
                 ELSE settings.maximum]

AutosizeGetAnswer ==
    Passed(<<NaElement("increment-size", StrOfNat(autosize.increment)),
             NaElement("is-enabled", autosize.enabled),
             NaElement("maximum-size", StrOfNat(autosize.maximum))>>)

VolumeFailures == {Failed("13040", "No such volume")}

\* a volume whose autosize was never configured
AutosizeDefaults == [enabled |-> "false", increment |-> 0, maximum |-> 0]

\* the state of deduplication after the appliance passed a sis request
SisAfter(req) == IF req.name = "sis-enable" THEN "Enabled" ELSE "Disabled"

SisFailures == {Failed("13001", "No such volume")}

----------------------------------------------------------------------------
(* CLI output as text: lines and the share pattern *)

Letters ==
    {"a", "b", "c", "d", "e", "f", "g", "h", "i", "j", "k", "l", "m", "n", "o", "p", "q", "r", "s", "t", "u", "v", "w", "x", "y", "z",
     "A", "B", "C", "D", "E", "F", "G", "H", "I", "J", "K", "L", "M", "N", "O", "P", "Q", "R", "S", "T", "U", "V", "W", "X", "Y", "Z"}

\* what \s of a regular expression matches
IsSpace(c) == c \in {" ", "\t", "\n", "\r", "\f"}

FirstNL(s) == IF NoNewline(s) THEN 0 ELSE Least({i \in 1..Len(s) : s[i] = NL})

\* str.splitlines(), for a text whose line boundaries are line feeds
RECURSIVE SplitLines(_)
SplitLines(s) ==
    IF s = <<>> THEN <<>>
    ELSE IF FirstNL(s) = 0 THEN <<s>>
    ELSE <<SubSeq(s, 1, FirstNL(s) - 1)>> \o SplitLines(SubSeq(s, FirstNL(s) + 1, Len(s)))

\* '\n'.join(lines)
RECURSIVE JoinLines(_)
JoinLines(lines) ==
    IF lines = <<>> THEN <<>>
    ELSE IF Len(lines) = 1 THEN lines[1]
    ELSE lines[1] \o <<NL>> \o JoinLines(Tail(lines))

\* the places where the group of share_pattern may end: a character that is not
\* white space, followed by white space and then '/'
SharePatternEnds(line) ==
    {e \in 2..Len(line) :
       /\ ~IsSpace(line[e])
       /\ NoNewline(SubSeq(line, 2, e - 1))
       /\ \E k \in (e + 2)..Len(line) :
            /\ line[k] = "/"
            /\ \A j \in (e + 1)..(k - 1) : IsSpace(line[j])}

Greatest(S) == CHOOSE i \in S : \A j \in S : j <= i

\* re.compile(r'^([a-zA-Z].*\S)\s+\/').match(line): <<>> when there is no match, else
\* <<groups()[0]>>; '.*' is greedy, so the group ends at the last place it may
SharePatternMatch(line) ==
    IF Len(line) >= 1 /\ line[1] \in Letters /\ SharePatternEnds(line) # {}
    THEN <<SubSeq(line, 1, Greatest(SharePatternEnds(line)))>>
    ELSE <<>>

----------------------------------------------------------------------------
(* class Share, and Filer.get_shares *)

Share_init(filer, name) == [class |-> "Share", name |-> name]

\* r is what self.invoke_cli('cifs', 'shares') returned or raised
Filer_get_shares(r) ==
    IF r.kind = "raise" THEN r
    ELSE IF child_get(r.value.e, "cli-output") = NoneElem THEN Raise(AttributeError)
    ELSE LET output == SplitLines(child_get(r.value.e, "cli-output").content)
             body == SubSeq(output, 3, Len(output))
             found == SelectSeq([i \in 1..Len(body) |-> SharePatternMatch(body[i])],
                                LAMBDA m : m # <<>>)
         IN  Return(PyList([i \in 1..Len(found) |-> Share_init("filer", found[i][1])]))

\* the result of a command of the CLI: its output and its exit value
CliPassed(text) ==
    Passed(<<NaElement("cli-output", text), NaElement("cli-result-value", "0")>>)

CliFailures == {Failed("13001", "No such volume")}

----------------------------------------------------------------------------
(* class Share *)

NoShareMessage ==
    <<"N", "o", " ", "s", "h", "a", "r", "e", " ", "i", "s", " ", "m", "a", "t", "c",
      "h", "i", "n", "g", " ", "t", "h", "a", "t", " ", "n", "a", "m", "e", ".">>

IsPrefix(p, s) == Len(p) <= Len(s) /\ SubSeq(s, 1, Len(p)) = p

ShareDetailRequest(self) == CliRequest(<<"cifs", "shares", self.name>>)

\* a _get_cifs_share that keeps the header lines
Share_get_cifs_share_with_headers(r) ==
    IF r.kind = "raise" THEN r
    ELSE IF child_get(r.value.e, "cli-output") = NoneElem THEN Raise(AttributeError)
    ELSE Return(PyStr(JoinLines(SplitLines(child_get(r.value.e, "cli-output").content))))

\* r is what self.filer.invoke_cli('cifs', 'shares', self.name) returned or raised
Share_get_cifs_share(r) ==
    IF r.kind = "raise" THEN r
    ELSE IF child_get(r.value.e, "cli-output") = NoneElem THEN Raise(AttributeError)
    ELSE LET output == SplitLines(child_get(r.value.e, "cli-output").content)
         IN  Return(PyStr(JoinLines(SubSeq(output, 3, Len(output)))))

\* g is what self._get_cifs_share() returned or raised;
\* re.match('^No share is matching that name\.', output) looks at the start of output
Share_configured(g) ==
    IF g.kind = "raise" THEN g
    ELSE IF IsPrefix(NoShareMessage, g.value.s) THEN Return(PyBool(FALSE))
    ELSE Return(PyBool(TRUE))

\* the flag and the value of one option: nothing when the argument is false
ShareOption(flag, arg) == IF PyTruth(arg) THEN <<flag, arg.s>> ELSE <<>>

ShareOptions(description, forcegroup, dir_umask, file_umask, umask) ==
    ShareOption("-comment", description)
    \o ShareOption("-forcegroup", forcegroup)
    \o ShareOption("-dir_umask", dir_umask)
    \o ShareOption("-file_umask", file_umask)
    \o ShareOption("-umask", umask)

\* the command list of create
ShareCreateCommand(self, mount_point, description, forcegroup, dir_umask, file_umask, umask) ==
    <<"cifs", "shares", "-add", self.name, mount_point>>
    \o ShareOptions(description, forcegroup, dir_umask, file_umask, umask)

\* the command list of modify
ShareModifyCommand(self, description, forcegroup, dir_umask, file_umask, umask) ==
    <<"cifs", "shares", "-change", self.name>>
    \o ShareOptions(description, forcegroup, dir_umask, file_umask, umask)

\* r is what self.filer.invoke_cli(*command) returned or raised
Share_create(r) == IF r.kind = "raise" THEN r ELSE Return(PyNone)

Share_modify(r) == IF r.kind = "raise" THEN r ELSE Return(PyNone)

----------------------------------------------------------------------------
(* The appliance's CIFS shares: what the session answers to the share commands *)

\* the CIFS share names callers use, and what the appliance keeps for a name
\* without a share
ShareNames == {<<"a", "b">>}
NoShare == [mount_point |-> <<>>, comment |-> <<>>]

ShareHeader ==
    <<"N", "a", "m", "e", " ", " ", " ", " ", " ", " ", " ", " ", " ", "M", "o", "u",
      "n", "t", " ", "P", "o", "i", "n", "t", " ", " ", " ", " ", " ", " ", " ", "D",
      "e", "s", "c", "r", "i", "p", "t", "i", "o", "n">>
ShareHeaderRule ==
    <<"-", "-", "-", "-", " ", " ", " ", " ", " ", " ", " ", " ", " ", "-", "-", "-",
      "-", "-", "-", "-", "-", "-", "-", "-", " ", " ", " ", " ", " ", " ", " ", "-",
      "-", "-", "-", "-", "-", "-", "-", "-", "-", "-">>
ShareAclLine ==
    <<"\t", "\t", "\t", "e", "v", "e", "r", "y", "o", "n", "e", " ", "/", " ", "F",
      "u", "l", "l", " ", "C", "o", "n", "t", "r", "o", "l">>
Blanks == <<" ", " ", " ", " ">>

\* the arguments of a system-cli request
CliArgs(req) ==
    LET args == children_get(child_get(req, "args"))
    IN  [i \in 1..Len(args) |-> args[i].content]

\* the output of 'cifs shares <name>' for a share the appliance has
ShareDetailText(name) ==
    JoinLines(<<ShareHeader, ShareHeaderRule,
                name \o Blanks \o shares[name].mount_point \o Blanks \o shares[name].comment,
                ShareAclLine>>) \o <<NL>>

\* The answers to 'cifs shares <name>'. For a name without a share the appliance
\* prints its message, after the header lines or alone.
ShareDetailAnswers(name) ==
    IF shares[name] = NoShare
    THEN {CliPassed(JoinLines(<<ShareHeader, ShareHeaderRule, NoShareMessage>>) \o <<NL>>),
          CliPassed(NoShareMessage \o <<NL>>)}
    ELSE {CliPassed(ShareDetailText(name))}

\* the value that follows flag in the arguments, or the value default
ArgAfter(args, flag, default) ==
    IF \E i \in 1..(Len(args) - 1) : args[i] = flag
    THEN args[Least({i \in 1..(Len(args) - 1) : args[i] = flag}) + 1]
    ELSE default

\* the shares after the appliance ran 'cifs shares -add ...' or 'cifs shares -change ...'
SharesAfter(req) ==
    LET args == CliArgs(req)
        name == args[4]
    IN  IF args[3] = "-add" /\ shares[name] = NoShare
        THEN [shares EXCEPT ![name] = [mount_point |-> args[5],
                                       comment |-> ArgAfter(args, "-comment", <<>>)]]
        ELSE IF args[3] = "-change" /\ shares[name] # NoShare
        THEN [shares EXCEPT ![name].comment = ArgAfter(args, "-comment", @)]
        ELSE shares

----------------------------------------------------------------------------
(* class Filer: construction and the factory methods *)

\* a constructor that gives a handle whatever the version query says
Filer_init_unchecked(hostname, out) ==
    Return([class |-> "Filer", name |-> hostname,
            version |-> child_get_string(out, "version")])

\* Filer(hostname, user, passwd), for out the session's answer to system-get-version
Filer_init(hostname, out) ==
    IF Filer_invoke(out).kind = "raise" THEN Filer_invoke(out)
    ELSE Return([class |-> "Filer", name |-> hostname,
                 version |-> child_get_string(out, "version")])

\* h is what export.configured() returned or raised, export being Export(self, path)
Filer_has_export(h) == h

\* h is what share.configured() returned or raised, share being Share(self, name)
Filer_has_share(h) == h

\* a get_volume that hands out a FlexVol for a volume the filer does not have
Filer_get_volume_always(name, h) ==
    IF h.kind = "raise" THEN h ELSE Return(FlexVol_init(name))

\* h is what self.has_volume(name) returned or raised
Filer_get_volume(name, h) ==
    IF h.kind = "raise" THEN h
    ELSE IF h.value.b THEN Return(FlexVol_init(name)) ELSE Return(PyBool(FALSE))

\* h is what self.has_export(export_path) returned or raised
Filer_get_export(export_path, h) ==
    IF h.kind = "raise" THEN h
    ELSE IF h.value.b THEN Return(Export_init("filer", export_path))
    ELSE Return(PyBool(FALSE))

\* h is what self.has_share(name) returned or raised
Filer_get_share(name, h) ==
    IF h.kind = "raise" THEN h
    ELSE IF h.value.b THEN Return(Share_init("filer", name)) ELSE Return(PyBool(FALSE))

----------------------------------------------------------------------------
(* class Export: modify_rule *)

\* the exports-rule-info element modify_rule builds; sec_flavor is accepted and not used
ModifyRuleInfo(path, nosuid, root_hosts, ro_hosts, rw_hosts, sec_flavor) ==
    LET nosuid_val == IF nosuid THEN "true" ELSE "false"
        rule_info == Node("exports-rule-info",
                          <<NaElement("nosuid", nosuid_val), NaElement("pathname", path)>>)
    IN  AddHostLists(rule_info, <<<<"root", root_hosts>>,
                                  <<"read-only", ro_hosts>>,
                                  <<"read-write", rw_hosts>>>>)

ModifyRuleRequest(path, nosuid, root_hosts, ro_hosts, rw_hosts, sec_flavor) ==
    Node("nfs-exportfs-modify-rule",
         <<NaElement("persistent", "true"),
           Node("rule", <<ModifyRuleInfo(path, nosuid, root_hosts, ro_hosts,
                                         rw_hosts, sec_flavor)>>)>>)

\* r is what self.filer.invoke_elem(nfs_export) returned or raised
Export_modify_rule(r) == IF r.kind = "raise" THEN r ELSE Return(PyNone)

----------------------------------------------------------------------------
(* The objects after a method call: no method but __init__ assigns to self *)

\* an Export that keeps the rule it fetched last
Export_after_call_caching(self, cs) ==
    [class |-> "Export", path |-> self.path, rules |-> cs[1].out]

\* the Export self after one of its methods made the invocations cs
Export_after_call(self, cs) == self

\* the FlexVol self after one of its methods made the invocations cs
FlexVol_after_call(self, cs) == self

\* the Share self after one of its methods made the invocations cs
Share_after_call(self, cs) == self

\* the Filer self after one of its methods made the invocations cs
Filer_after_call(self, cs) == self

----------------------------------------------------------------------------
(* The operations as actions *)

Apis == {"system-get-version", "priority-enable"}
VolumeArgs == {<<"v", "1">>, <<"v", "2">>, VolPrefix \o <<"v", "1">>}
CliCommands == {<<"cifs", "shares">>, <<"version">>}

Do(o, cs, r) ==
    /\ op' = o
    /\ calls' = cs
    /\ ret' = r

Invoke ==
    \E api \in Apis :
      LET req == ApiRequest(api, <<>>) IN
      \E out \in Answers(req) :
        /\ Do([name |-> "invoke", api |-> api], <<Call(req, out)>>, Filer_invoke(out))
        /\ UNCHANGED <<rules, autodelete, autosize, sis, shares, handles, defaults, snapvault, script>>

InvokeElem ==
    \E api \in Apis :
      LET req == Node(api, <<>>) IN
      \E out \in Answers(req) :
        /\ Do([name |-> "invoke_elem", api |-> api], <<Call(req, out)>>,
              Filer_invoke_elem(out))
        /\ UNCHANGED <<rules, autodelete, autosize, sis, shares, handles, defaults, snapvault, script>>

InvokeCli ==
    \E cmd \in CliCommands :
      LET req == CliRequest(cmd) IN
      \E out \in Answers(req) :
        /\ Do([name |-> "invoke_cli", cli_args |-> cmd], <<Call(req, out)>>,
              Filer_invoke_cli(out))
        /\ UNCHANGED <<rules, autodelete, autosize, sis, shares, handles, defaults, snapvault, script>>

HasVolume ==
    \E n \in VolumeArgs :
      LET req == ApiRequest("volume-list-info", <<"volume", n>>) IN
      \E out \in Answers(req) :
        /\ Do([name |-> "has_volume", volume |-> n], <<Call(req, out)>>,
              Filer_has_volume(Filer_invoke(out)))
        /\ UNCHANGED <<rules, autodelete, autosize, sis, shares, handles, defaults, snapvault, script>>

GetSisState ==
    \E n \in VolumeArgs :
      LET self == FlexVol_init(n)
          req == ApiRequest("sis-status", <<"path", self.path>>) IN
      \E out \in Answers(req) :
        /\ Do([name |-> "get_sis_state", self |-> self], <<Call(req, out)>>,
              FlexVol_get_sis_state(Filer_invoke(out)))
        /\ UNCHANGED <<rules, autodelete, autosize, sis, shares, handles, defaults, snapvault, script>>

GetPriorityCachePolicy ==
    \E n \in VolumeArgs :
      LET self == FlexVol_init(n)
          req == ApiRequest("priority-list-info-volume", <<"volume", self.name>>) IN
      \E out \in Answers(req) :
        /\ Do([name |-> "get_priority_cache_policy", self |-> self], <<Call(req, out)>>,
              FlexVol_get_priority_cache_policy(Filer_invoke(out)))
        /\ UNCHANGED <<rules, autodelete, autosize, sis, shares, handles, defaults, snapvault, script>>

----------------------------------------------------------------------------
(* The Export operations as actions *)

ExportPaths == {"/vol/a"}
HostLists == {<<>>, <<"h1", "h2">>}
SecFlavors == {"sys"}

ListRulesRequest(self) == ApiRequest("nfs-exportfs-list-rules", <<"pathname", self.path>>)

\* the appliance's rules after it passed an append-rules request
AppendedRules(req) ==
    LET rule_info == child_get(child_get(req, "rules"), "exports-rule-info")
    IN  [rules EXCEPT ![child_get_string(rule_info, "pathname")] = StoredRule(rule_info)]

\* the appliance's rules after it passed a delete-rules request
DeletedRules(req) ==
    LET info == child_get(child_get(req, "pathnames"), "pathname-info")
    IN  [rules EXCEPT ![child_get_string(info, "name")] = NoneElem]

\* the answers of the session to the rule query of a getter
GetterAnswers(self) == ListRulesAnswers(self.path) \cup ExportFailures

\* what self._get_rules() returns or raises when the session answers out
GetRules(out) == Export_get_rules(Filer_invoke(out))

Getter(getter_name, self, out, result) ==
    /\ Do([name |-> getter_name, self |-> self],
          <<Call(ListRulesRequest(self), out)>>,
          result)
    /\ UNCHANGED <<rules, autodelete, autosize, sis, shares, handles, defaults, snapvault, script>>

Configured ==
    \E p \in ExportPaths :
      LET self == Export_init("filer", p) IN
      \E out \in GetterAnswers(self) :
        Getter("configured", self, out, Export_configured(GetRules(out)))

GetNosuid ==
    \E p \in ExportPaths :
      LET self == Export_init("filer", p) IN
      \E out \in GetterAnswers(self) :
        Getter("get_nosuid", self, out, Export_get_nosuid(GetRules(out)))

GetRoHosts ==
    \E p \in ExportPaths :
      LET self == Export_init("filer", p) IN
      \E out \in GetterAnswers(self) :
        Getter("get_ro_hosts", self, out, Export_get_ro_hosts(GetRules(out)))

GetRwHosts ==
    \E p \in ExportPaths :
      LET self == Export_init("filer", p) IN
      \E out \in GetterAnswers(self) :
        Getter("get_rw_hosts", self, out, Export_get_rw_hosts(GetRules(out)))

GetRootHosts ==
    \E p \in ExportPaths :
      LET self == Export_init("filer", p) IN
      \E out \in GetterAnswers(self) :
        Getter("get_root_hosts", self, out, Export_get_root_hosts(GetRules(out)))

CreateRule ==
    \E p \in ExportPaths, nosuid \in BOOLEAN, root_hosts \in HostLists,
       ro_hosts \in HostLists, rw_hosts \in HostLists, sec_flavor \in SecFlavors :
      LET self == Export_init("filer", p)
          req == CreateRuleRequest(self.path, nosuid, root_hosts, ro_hosts, rw_hosts,
                                   sec_flavor)
      IN
      \E out \in {Passed(<<>>)} \cup ExportFailures :
        /\ Do([name |-> "create_rule", self |-> self, nosuid |-> nosuid,
               root_hosts |-> root_hosts, ro_hosts |-> ro_hosts, rw_hosts |-> rw_hosts,
               sec_flavor |-> sec_flavor],
              <<Call(req, out)>>,
              Export_create_rule(Filer_invoke_elem(out)))
        /\ rules' = IF results_status(out) = "passed" THEN AppendedRules(req) ELSE rules
        /\ UNCHANGED <<autodelete, autosize, sis, shares, handles, defaults, snapvault, script>>

DeleteRule ==
    \E p \in ExportPaths :
      LET self == Export_init("filer", p)
          req == DeleteRuleRequest(self.path)
      IN
      \E out \in {Passed(<<>>)} \cup ExportFailures :
        /\ Do([name |-> "delete_rule", self |-> self], <<Call(req, out)>>,
              Export_delete_rule(Filer_invoke_elem(out)))
        /\ rules' = IF results_status(out) = "passed" THEN DeletedRules(req) ELSE rules
        /\ UNCHANGED <<autodelete, autosize, sis, shares, handles, defaults, snapvault, script>>

\* the places where the program keeps the objects it constructed
HandleIds == {"filer", "export1", "export2", "volume", "share"}
NoHandle == [class |-> "None"]

\* the list objects that are the defaults of root_hosts, ro_hosts and rw_hosts: one
\* object per parameter and method, made when the class is defined and used by every
\* call that omits the argument
DefaultHostLists ==
    [m \in {"create_rule", "modify_rule"} |->
       [root_hosts |-> <<>>, ro_hosts |-> <<>>, rw_hosts |-> <<>>]]

\* the SnapVault schedule names callers use; a volume nobody gave a schedule
ScheduleNames == {"sv_daily"}
NoSchedules == [role \in {"primary", "secondary"} |-> [n \in ScheduleNames |-> NoneElem]]

\* the backup script not started
NoScript == [pc |-> "none"]

Init ==
    /\ op = NoOp
    /\ calls = <<>>
    /\ ret = NoRet
    /\ rules = [p \in ExportPaths |-> NoneElem]
    /\ autodelete = AutodeleteDefaults
    /\ autosize = AutosizeDefaults
    /\ sis = "Disabled"
    /\ shares = [n \in ShareNames |-> NoShare]
    /\ handles = [h \in HandleIds |-> NoHandle]
    /\ defaults = DefaultHostLists
    /\ snapvault = NoSchedules
    /\ script = NoScript

NextExport ==
    \/ Configured
    \/ CreateRule
    \/ DeleteRule
    \/ GetNosuid
    \/ GetRoHosts
    \/ GetRwHosts
    \/ GetRootHosts

SpecExport == Init /\ [][NextExport]_vars

----------------------------------------------------------------------------
(* The snapshot autodelete operations as actions *)

\* 'space' is no option of the appliance's documentation: it stands for any option
\* name that is a part of the text 'target_free_space'
SpaceOption == <<"s", "p", "a", "c", "e">>
OptionNames == {TargetFreeSpace, StateOption, SpaceOption}
OptionValues == {PyInt(20), PyInt(5), PyStr(<<"2", "0">>), PyStr(<<"o", "n">>)}
AutodeleteVolume == FlexVol_init(<<"v", "1">>)

SetSnapAutodeleteOption ==
    \E option_name \in OptionNames, value \in OptionValues :
      LET self == AutodeleteVolume
          req == SetAutodeleteRequest(self, option_name, value)
      IN
      \E out \in (IF AutodeleteAccepts(req) THEN {Passed(<<>>)} ELSE {})
                 \cup AutodeleteFailures :
        /\ Do([name |-> "set_snap_autodelete_option", self |-> self,
               option_name |-> option_name, value |-> value],
              <<Call(req, out)>>,
              FlexVol_set_snap_autodelete_option(Filer_invoke(out)))
        /\ autodelete' = IF results_status(out) = "passed"
                         THEN AutodeleteAfterSet(req) ELSE autodelete
        /\ UNCHANGED <<rules, autosize, sis, shares, handles, defaults, snapvault, script>>

GetSnapAutodelete ==
    LET self == AutodeleteVolume
        req == ApiRequest("snapshot-autodelete-list-info", <<"volume", self.name>>)
    IN
    \E out \in {AutodeleteListAnswer} \cup AutodeleteFailures :
      /\ Do([name |-> "get_snap_autodelete", self |-> self], <<Call(req, out)>>,
            FlexVol_get_snap_autodelete(Filer_invoke(out)))
      /\ UNCHANGED <<rules, autodelete, autosize, sis, shares, handles, defaults, snapvault, script>>

NextAutodelete ==
    \/ SetSnapAutodeleteOption
    \/ GetSnapAutodelete

SpecAutodelete == Init /\ [][NextAutodelete]_vars

----------------------------------------------------------------------------
(* The autosize and deduplication operations as actions *)

AutosizeVolume == FlexVol_init(<<"v", "1">>)

Omitted == PyBool(FALSE)

\* the sizes given to set_autosize_state: 1 GB, half a GB and 1.5625 GB for the
\* increment, 2.5 GB and 1 GB + 1 KB for the maximum
IncrementArgs ==
    {PyStr(<<"1", "g">>), PyStr(<<"5", "1", "2", "m">>), PyStr(<<"1", "6", "0", "0", "m">>)}
MaximumArgs ==
    {PyStr(<<"2", "5", "6", "0", "m">>), PyStr(<<"1", "0", "4", "8", "5", "7", "7">>)}

\* the settings after the appliance passed the requests reqs, one after the other
RECURSIVE AutosizeAfterAll(_, _)
AutosizeAfterAll(settings, reqs) ==
    IF reqs = <<>> THEN settings
    ELSE AutosizeAfterAll(AutosizeAfterSet(settings, Head(reqs)), Tail(reqs))

\* a set_autosize_state that goes on after an invocation faulted
InvokeInOrder_all(reqs, outs) == [i \in 1..Len(reqs) |-> Call(reqs[i], outs[i])]

\* the invocations made of reqs, one statement after the other, when the appliance
\* answers the i-th with outs[i]: Filer.invoke raises on a failed answer, nothing
\* catches it, and the statements after it are not reached
RECURSIVE InvokeInOrder(_, _)
InvokeInOrder(reqs, outs) ==
    IF reqs = <<>> THEN <<>>
    ELSE IF results_status(Head(outs)) = "failed"
         THEN <<Call(Head(reqs), Head(outs))>>
         ELSE <<Call(Head(reqs), Head(outs))>> \o InvokeInOrder(Tail(reqs), Tail(outs))

\* the requests among the invocations cs that the appliance passed
PassedRequests(cs) ==
    LET passed == SelectSeq(cs, LAMBDA c : results_status(c.out) = "passed")
    IN  [i \in 1..Len(passed) |-> passed[i].req]

\* the invocations of reqs and their results when the appliance faults the k-th with
\* failure, or passes them all (failure = NoneElem)
AutosizeCalls(reqs, k, failure) ==
    InvokeInOrder(reqs, [i \in 1..Len(reqs) |->
                           IF i = k /\ failure # NoneElem THEN failure ELSE Passed(<<>>)])

SetAutosizeState ==
    \E enabled \in BOOLEAN, increment_size \in IncrementArgs \cup {Omitted},
       maximum_size \in MaximumArgs \cup {Omitted} :
      LET self == AutosizeVolume
          reqs == AutosizeSetRequests(self, PyBool(enabled), increment_size, maximum_size)
      IN
      \E k \in 1..Len(reqs), failure \in VolumeFailures \cup {NoneElem} :
        /\ failure = NoneElem => k = Len(reqs)
        /\ Do([name |-> "set_autosize_state", self |-> self, enabled |-> PyBool(enabled),
               increment_size |-> increment_size, maximum_size |-> maximum_size],
              AutosizeCalls(reqs, k, failure),
              FlexVol_set_autosize_state(AutosizeCalls(reqs, k, failure)))
        /\ autosize' = AutosizeAfterAll(autosize,
                                        PassedRequests(AutosizeCalls(reqs, k, failure)))
        /\ UNCHANGED <<rules, autodelete, sis, shares, handles, defaults, snapvault, script>>

GetAutosizeIncrementGb ==
    \E py \in PythonVersions :
      LET self == AutosizeVolume IN
      \E out \in {AutosizeGetAnswer} \cup VolumeFailures :
        /\ Do([name |-> "get_autosize_increment_gb", self |-> self],
              <<Call(AutosizeGetRequest(self), out)>>,
              FlexVol_get_autosize_increment_gb(
                  py, FlexVol_get_autosize_increment(Filer_invoke(out))))
        /\ UNCHANGED <<rules, autodelete, autosize, sis, shares, handles, defaults, snapvault, script>>

GetAutosizeMaxSizeGb ==
    \E py \in PythonVersions :
      LET self == AutosizeVolume IN
      \E out \in {AutosizeGetAnswer} \cup VolumeFailures :
        /\ Do([name |-> "get_autosize_max_size_gb", self |-> self],
              <<Call(AutosizeGetRequest(self), out)>>,
              FlexVol_get_autosize_max_size_gb(
                  py, FlexVol_get_autosize_max_size(Filer_invoke(out))))
        /\ UNCHANGED <<rules, autodelete, autosize, sis, shares, handles, defaults, snapvault, script>>

SisStateArgs == {"enabled", "Enabled", "disabled", "Disabled", "on", "ENABLED", ""}

SetSisState ==
    \E state \in SisStateArgs :
      LET self == AutosizeVolume
          reqs == SisRequest(self, state)
      IN
      \E out \in {Passed(<<>>)} \cup SisFailures :
        LET cs == [i \in 1..Len(reqs) |-> Call(reqs[i], out)] IN
        /\ Do([name |-> "set_sis_state", self |-> self, state |-> state], cs,
              FlexVol_set_sis_state(cs))
        /\ sis' = IF cs # <<>> /\ results_status(out) = "passed"
                  THEN SisAfter(cs[1].req) ELSE sis
        /\ UNCHANGED <<rules, autodelete, autosize, shares, handles, defaults, snapvault, script>>

NextVolume ==
    \/ SetAutosizeState
    \/ GetAutosizeIncrementGb
    \/ GetAutosizeMaxSizeGb
    \/ SetSisState

SpecVolume == Init /\ [][NextVolume]_vars

----------------------------------------------------------------------------
(* Decoding a list: _xmltree_to_list on response trees *)

MaxItems == 2

\* the children an outer element may have: with a value, with an empty value, without
\* the inner child, and with the inner child after another one
ListItems ==
    {Node("exports-hostname-info", <<NaElement("name", "h1")>>),
     Node("exports-hostname-info", <<NaElement("name", "h2")>>),
     Node("exports-hostname-info", <<NaElement("name", "")>>),
     AllHosts,
     Node("exports-hostname-info", <<NaElement("negate", "false"), NaElement("name", "h1")>>)}

RECURSIVE ItemLists(_)
ItemLists(k) ==
    IF k = 0 THEN {<<>>}
    ELSE ItemLists(k - 1) \cup {Append(l, i) : l \in ItemLists(k - 1), i \in ListItems}

\* the trees given to _xmltree_to_list: without the outer child, with it alone, and
\* with it after another child
ListTrees ==
    UNION {{Node("exports-rule-info", <<NaElement("pathname", "/vol/a")>>),
            Node("exports-rule-info", <<Node("read-write", l)>>),
            Node("exports-rule-info", <<NaElement("pathname", "/vol/a"),
                                        Node("read-write", l)>>)} :
           l \in ItemLists(MaxItems)}

OuterNames == {"read-write", "read-only"}

XmltreeToList ==
    \E nae \in ListTrees, outer_name \in OuterNames :
      /\ Do([name |-> "_xmltree_to_list", nae |-> nae, outer_name |-> outer_name,
             inner_name |-> "name"],
            <<>>,
            Return(PyList(Filer_xmltree_to_list(nae, outer_name, "name"))))
      /\ UNCHANGED <<rules, autodelete, autosize, sis, shares, handles, defaults, snapvault, script>>

NextDecode == XmltreeToList

SpecDecode == Init /\ [][NextDecode]_vars

----------------------------------------------------------------------------
(* Listing the CIFS shares: get_shares on the output of 'cifs shares' *)

MaxLineLen == 6

LineChars == {"a", "1", " ", "/"}

RECURSIVE Texts(_)
Texts(k) ==
    IF k = 0 THEN {<<>>}
    ELSE Texts(k - 1) \cup {Append(t, c) : t \in Texts(k - 1), c \in LineChars}

\* the second header line, and a line that lists the share 'ab'
RuleLine == <<"-", "-">>
ShareLine == <<"a", "b", " ", "/", "b">>

\* the outputs of 'cifs shares': no line, one line, and two lines (the first of them
\* like a share's line) followed by any line, alone or before the line of 'ab'
ListingTexts ==
    {<<>>, ShareLine \o <<NL>>}
    \cup {JoinLines(<<ShareLine, RuleLine, l>>) \o <<NL>> : l \in Texts(MaxLineLen)}
    \cup {JoinLines(<<ShareLine, RuleLine, l, ShareLine>>) \o <<NL>> : l \in Texts(MaxLineLen)}

\* the appliance is about to answer 'cifs shares' with one of the outputs
InitListing ==
    /\ op \in {[name |-> "cifs shares", content |-> t] : t \in ListingTexts}
    /\ calls = <<>>
    /\ ret = NoRet
    /\ rules = [p \in ExportPaths |-> NoneElem]
    /\ autodelete = AutodeleteDefaults
    /\ autosize = AutosizeDefaults
    /\ sis = "Disabled"
    /\ shares = [n \in ShareNames |-> NoShare]
    /\ handles = [h \in HandleIds |-> NoHandle]
    /\ defaults = DefaultHostLists
    /\ snapvault = NoSchedules
    /\ script = NoScript

GetShares ==
    /\ op.name = "cifs shares"
    /\ \E out \in {CliPassed(op.content)} \cup CliFailures :
         Do([name |-> "get_shares", content |-> op.content],
            <<Call(CliRequest(<<"cifs", "shares">>), out)>>,
            Filer_get_shares(Filer_invoke_cli(out)))
    /\ UNCHANGED <<rules, autodelete, autosize, sis, shares, handles, defaults, snapvault, script>>

NextListing == GetShares

SpecListing == InitListing /\ [][NextListing]_vars

----------------------------------------------------------------------------
(* The Share operations as actions *)

MountPoints == {<<"/", "b">>}
Descriptions == {Omitted, PyStr(<<>>), PyStr(<<"c">>)}
Forcegroups == {Omitted, PyStr(<<"g">>)}
Umasks == {Omitted, PyStr(<<"0", "2", "2">>)}

ShareConfigured ==
    \E n \in ShareNames :
      LET self == Share_init("filer", n)
          req == ShareDetailRequest(self)
      IN
      \E out \in ShareDetailAnswers(n) \cup CliFailures :
        /\ Do([name |-> "Share.configured", self |-> self], <<Call(req, out)>>,
              Share_configured(Share_get_cifs_share(Filer_invoke_cli(out))))
        /\ UNCHANGED <<rules, autodelete, autosize, sis, shares, handles, defaults, snapvault, script>>

ShareCreate ==
    \E n \in ShareNames, mount_point \in MountPoints, description \in Descriptions,
       forcegroup \in Forcegroups, dir_umask \in Umasks, file_umask \in Umasks,
       umask \in Umasks :
      LET self == Share_init("filer", n)
          req == CliRequest(ShareCreateCommand(self, mount_point, description, forcegroup,
                                               dir_umask, file_umask, umask))
      IN
      \E out \in {CliPassed(<<>>)} \cup CliFailures :
        /\ Do([name |-> "Share.create", self |-> self, mount_point |-> mount_point,
               description |-> description, forcegroup |-> forcegroup,
               dir_umask |-> dir_umask, file_umask |-> file_umask, umask |-> umask],
              <<Call(req, out)>>,
              Share_create(Filer_invoke_cli(out)))
        /\ shares' = IF results_status(out) = "passed" THEN SharesAfter(req) ELSE shares
        /\ UNCHANGED <<rules, autodelete, autosize, sis, handles, defaults, snapvault, script>>

ShareModify ==
    \E n \in ShareNames, description \in Descriptions, forcegroup \in Forcegroups,
       dir_umask \in Umasks, file_umask \in Umasks, umask \in Umasks :
      LET self == Share_init("filer", n)
          req == CliRequest(ShareModifyCommand(self, description, forcegroup, dir_umask,
                                               file_umask, umask))
      IN
      \E out \in {CliPassed(<<>>)} \cup CliFailures :
        /\ Do([name |-> "Share.modify", self |-> self,
               description |-> description, forcegroup |-> forcegroup,
               dir_umask |-> dir_umask, file_umask |-> file_umask, umask |-> umask],
              <<Call(req, out)>>,
              Share_modify(Filer_invoke_cli(out)))
        /\ shares' = IF results_status(out) = "passed" THEN SharesAfter(req) ELSE shares
        /\ UNCHANGED <<rules, autodelete, autosize, sis, handles, defaults, snapvault, script>>

NextShare ==
    \/ ShareConfigured
    \/ ShareCreate
    \/ ShareModify

SpecShare == Init /\ [][NextShare]_vars

----------------------------------------------------------------------------
(* The program's objects: construction, the factory methods, and method calls *)

Hostnames == {"filer1"}
Versions == {"NetApp Release 8.1", "NetApp Release 7.3.7"}
VersionAnswers == {Passed(<<NaElement("version", v)>>) : v \in Versions}
LoginFailures == {Failed("13002", "Authorization failed")}

ExportSlots == {"export1", "export2"}
HandleVolumeArgs == {<<"v", "1">>, VolPrefix \o <<"v", "1">>}

HaveFiler == handles["filer"] # NoHandle

\* whether a method returned an object (and not False)
IsObject(r) == r.kind = "return" /\ "class" \in DOMAIN r.value

\* the objects after the Filer's method returned or raised r, having made the
\* invocations cs, when the caller keeps the object it returned at h
KeptAt(h, r, cs) ==
    [k \in HandleIds |->
       IF k = h /\ IsObject(r) THEN r.value
       ELSE IF k = "filer" THEN Filer_after_call(handles["filer"], cs)
       ELSE handles[k]]

NewFiler ==
    /\ ~HaveFiler
    /\ \E hostname \in Hostnames, out \in VersionAnswers \cup LoginFailures :
         /\ Do([name |-> "Filer", hostname |-> hostname],
               <<Call(ApiRequest("system-get-version", <<>>), out)>>,
               Filer_init(hostname, out))
         /\ handles' = IF IsObject(Filer_init(hostname, out))
                       THEN [handles EXCEPT !["filer"] = Filer_init(hostname, out).value]
                       ELSE handles
    /\ UNCHANGED <<rules, autodelete, autosize, sis, shares, defaults, snapvault, script>>

NewExport ==
    /\ HaveFiler
    /\ \E h \in ExportSlots, p \in ExportPaths :
         /\ Do([name |-> "Export", path |-> p], <<>>, Return(Export_init("filer", p)))
         /\ handles' = [handles EXCEPT ![h] = Export_init("filer", p)]
    /\ UNCHANGED <<rules, autodelete, autosize, sis, shares, defaults, snapvault, script>>

NewShare ==
    /\ HaveFiler
    /\ \E n \in ShareNames :
         /\ Do([name |-> "Share", share |-> n], <<>>, Return(Share_init("filer", n)))
         /\ handles' = [handles EXCEPT !["share"] = Share_init("filer", n)]
    /\ UNCHANGED <<rules, autodelete, autosize, sis, shares, defaults, snapvault, script>>

GetVolume ==
    /\ HaveFiler
    /\ \E n \in HandleVolumeArgs :
         LET req == ApiRequest("volume-list-info", <<"volume", n>>) IN
         \E out \in {Passed(<<>>)} \cup VolumeFailures \cup SisFailures :
           LET cs == <<Call(req, out)>>
               r == Filer_get_volume(n, Filer_has_volume(Filer_invoke(out)))
           IN  /\ Do([name |-> "get_volume", key |-> n], cs, r)
               /\ handles' = KeptAt("volume", r, cs)
    /\ UNCHANGED <<rules, autodelete, autosize, sis, shares, defaults, snapvault, script>>

GetExport ==
    /\ HaveFiler
    /\ \E h \in ExportSlots, p \in ExportPaths :
         LET export == Export_init("filer", p) IN
         \E out \in GetterAnswers(export) :
           LET cs == <<Call(ListRulesRequest(export), out)>>
               r == Filer_get_export(p, Filer_has_export(Export_configured(GetRules(out))))
           IN  /\ Do([name |-> "get_export", key |-> p], cs, r)
               /\ handles' = KeptAt(h, r, cs)
    /\ UNCHANGED <<rules, autodelete, autosize, sis, shares, defaults, snapvault, script>>

GetShare ==
    /\ HaveFiler
    /\ \E n \in ShareNames :
         LET share == Share_init("filer", n) IN
         \E out \in ShareDetailAnswers(n) \cup CliFailures :
           LET cs == <<Call(ShareDetailRequest(share), out)>>
               r == Filer_get_share(n, Filer_has_share(
                        Share_configured(Share_get_cifs_share(Filer_invoke_cli(out)))))
           IN  /\ Do([name |-> "get_share", key |-> n], cs, r)
               /\ handles' = KeptAt("share", r, cs)
    /\ UNCHANGED <<rules, autodelete, autosize, sis, shares, defaults, snapvault, script>>

\* the appliance's rules after it passed a modify-rule request
ModifiedRules(req) ==
    LET rule_info == child_get(child_get(req, "rule"), "exports-rule-info")
    IN  [rules EXCEPT ![child_get_string(rule_info, "pathname")] = StoredRule(rule_info)]

\* the appliance changes a rule it has, and faults a request for a path without one
ModifyRuleAnswers(path) ==
    IF rules[path] = NoneElem THEN ExportFailures ELSE {Passed(<<>>)} \cup ExportFailures

IsExport(h) == handles[h].class = "Export"

ExportCreateRule ==
    \E h \in ExportSlots, nosuid \in BOOLEAN :
      /\ IsExport(h)
      /\ LET self == handles[h]
             req == CreateRuleRequest(self.path, nosuid, <<>>, <<>>, <<>>, "sys")
         IN  \E out \in {Passed(<<>>)} \cup ExportFailures :
               /\ Do([name |-> "create_rule", handle |-> h, self |-> self,
                      nosuid |-> nosuid],
                     <<Call(req, out)>>, Export_create_rule(Filer_invoke_elem(out)))
               /\ rules' = IF results_status(out) = "passed" THEN AppendedRules(req)
                           ELSE rules
               /\ handles' = [handles EXCEPT
                                ![h] = Export_after_call(self, <<Call(req, out)>>)]
      /\ UNCHANGED <<autodelete, autosize, sis, shares, defaults, snapvault, script>>

ExportModifyRule ==
    \E h \in ExportSlots, nosuid \in BOOLEAN :
      /\ IsExport(h)
      /\ LET self == handles[h]
             req == ModifyRuleRequest(self.path, nosuid, <<>>, <<>>, <<>>, "sys")
         IN  \E out \in ModifyRuleAnswers(self.path) :
               /\ Do([name |-> "modify_rule", handle |-> h, self |-> self,
                      nosuid |-> nosuid],
                     <<Call(req, out)>>, Export_modify_rule(Filer_invoke_elem(out)))
               /\ rules' = IF results_status(out) = "passed" THEN ModifiedRules(req)
                           ELSE rules
               /\ handles' = [handles EXCEPT
                                ![h] = Export_after_call(self, <<Call(req, out)>>)]
      /\ UNCHANGED <<autodelete, autosize, sis, shares, defaults, snapvault, script>>

ExportDeleteRule ==
    \E h \in ExportSlots :
      /\ IsExport(h)
      /\ LET self == handles[h]
             req == DeleteRuleRequest(self.path)
         IN  \E out \in {Passed(<<>>)} \cup ExportFailures :
               /\ Do([name |-> "delete_rule", handle |-> h, self |-> self],
                     <<Call(req, out)>>, Export_delete_rule(Filer_invoke_elem(out)))
               /\ rules' = IF results_status(out) = "passed" THEN DeletedRules(req)
                           ELSE rules
               /\ handles' = [handles EXCEPT
                                ![h] = Export_after_call(self, <<Call(req, out)>>)]
      /\ UNCHANGED <<autodelete, autosize, sis, shares, defaults, snapvault, script>>

\* a getter of the Export at h: its rule query, its result, and the objects after it
ExportGetter(getter_name, h, out, result) ==
    /\ Do([name |-> getter_name, handle |-> h, self |-> handles[h]],
          <<Call(ListRulesRequest(handles[h]), out)>>, result)
    /\ handles' = [handles EXCEPT
                     ![h] = Export_after_call(handles[h],
                                              <<Call(ListRulesRequest(handles[h]), out)>>)]
    /\ UNCHANGED <<rules, autodelete, autosize, sis, shares, defaults, snapvault, script>>

ExportConfigured ==
    \E h \in ExportSlots :
      /\ IsExport(h)
      /\ \E out \in GetterAnswers(handles[h]) :
           ExportGetter("configured", h, out, Export_configured(GetRules(out)))

ExportGetNosuid ==
    \E h \in ExportSlots :
      /\ IsExport(h)
      /\ \E out \in GetterAnswers(handles[h]) :
           ExportGetter("get_nosuid", h, out, Export_get_nosuid(GetRules(out)))

ExportGetRwHosts ==
    \E h \in ExportSlots :
      /\ IsExport(h)
      /\ \E out \in GetterAnswers(handles[h]) :
           ExportGetter("get_rw_hosts", h, out, Export_get_rw_hosts(GetRules(out)))

SisStatusAnswer ==
    Passed(<<Node("sis-object", <<Node("dense-status", <<NaElement("state", sis)>>)>>)>>)

VolumeSetSisState ==
    /\ handles["volume"].class = "FlexVol"
    /\ \E state \in {"enabled", "disabled", "on"} :
         LET self == handles["volume"]
             reqs == SisRequest(self, state)
         IN  \E out \in {Passed(<<>>)} \cup SisFailures :
               LET cs == [i \in 1..Len(reqs) |-> Call(reqs[i], out)] IN
               /\ Do([name |-> "set_sis_state", handle |-> "volume", self |-> self,
                      state |-> state],
                     cs, FlexVol_set_sis_state(cs))
               /\ sis' = IF cs # <<>> /\ results_status(out) = "passed"
                         THEN SisAfter(cs[1].req) ELSE sis
               /\ handles' = [handles EXCEPT !["volume"] = FlexVol_after_call(self, cs)]
    /\ UNCHANGED <<rules, autodelete, autosize, shares, defaults, snapvault, script>>

VolumeGetSisState ==
    /\ handles["volume"].class = "FlexVol"
    /\ LET self == handles["volume"]
           req == ApiRequest("sis-status", <<"path", self.path>>)
       IN  \E out \in {SisStatusAnswer} \cup SisFailures :
             /\ Do([name |-> "get_sis_state", handle |-> "volume", self |-> self],
                   <<Call(req, out)>>, FlexVol_get_sis_state(Filer_invoke(out)))
             /\ handles' = [handles EXCEPT
                              !["volume"] = FlexVol_after_call(self, <<Call(req, out)>>)]
    /\ UNCHANGED <<rules, autodelete, autosize, sis, shares, defaults, snapvault, script>>

ShareCreateAtHandle ==
    /\ handles["share"].class = "Share"
    /\ \E mount_point \in MountPoints :
         LET self == handles["share"]
             req == CliRequest(ShareCreateCommand(self, mount_point, Omitted, Omitted,
                                                  Omitted, Omitted, Omitted))
         IN  \E out \in {CliPassed(<<>>)} \cup CliFailures :
               /\ Do([name |-> "Share.create", handle |-> "share", self |-> self,
                      mount_point |-> mount_point, description |-> Omitted,
                      forcegroup |-> Omitted, dir_umask |-> Omitted,
                      file_umask |-> Omitted, umask |-> Omitted],
                     <<Call(req, out)>>, Share_create(Filer_invoke_cli(out)))
               /\ shares' = IF results_status(out) = "passed" THEN SharesAfter(req)
                            ELSE shares
               /\ handles' = [handles EXCEPT
                                !["share"] = Share_after_call(self, <<Call(req, out)>>)]
    /\ UNCHANGED <<rules, autodelete, autosize, sis, defaults, snapvault, script>>

ShareConfiguredAtHandle ==
    /\ handles["share"].class = "Share"
    /\ LET self == handles["share"]
           req == ShareDetailRequest(self)
       IN  \E out \in ShareDetailAnswers(self.name) \cup CliFailures :
             /\ Do([name |-> "Share.configured", handle |-> "share", self |-> self],
                   <<Call(req, out)>>,
                   Share_configured(Share_get_cifs_share(Filer_invoke_cli(out))))
             /\ handles' = [handles EXCEPT
                              !["share"] = Share_after_call(self, <<Call(req, out)>>)]
    /\ UNCHANGED <<rules, autodelete, autosize, sis, shares, defaults, snapvault, script>>

NextHandles ==
    \/ NewFiler
    \/ NewExport
    \/ NewShare
    \/ GetVolume
    \/ GetExport
    \/ GetShare
    \/ ExportCreateRule
    \/ ExportModifyRule
    \/ ExportDeleteRule
    \/ ExportConfigured
    \/ ExportGetNosuid
    \/ ExportGetRwHosts
    \/ VolumeSetSisState
    \/ VolumeGetSisState
    \/ ShareCreateAtHandle
    \/ ShareConfiguredAtHandle

SpecHandles == Init /\ [][NextHandles]_vars

----------------------------------------------------------------------------
(* Constructing a FlexVol from a string *)

MaxPieces == 3

\* what the strings given to the constructor are made of
NamePieces == {VolPrefix, <<"/", "v", "o", "l">>, <<"x">>, <<"/">>, <<NL>>}

RECURSIVE Concatenations(_)
Concatenations(k) ==
    IF k = 0 THEN {<<>>}
    ELSE Concatenations(k - 1) \cup
         {s \o p : s \in Concatenations(k - 1), p \in NamePieces}

NameInputs == Concatenations(MaxPieces)

NewFlexVol ==
    \E name \in NameInputs :
      /\ Do([name |-> "FlexVol", arg |-> name], <<>>, Return(FlexVol_init(name)))
      /\ UNCHANGED <<rules, autodelete, autosize, sis, shares, handles, defaults, snapvault, script>>

NextFlexVol == NewFlexVol

SpecFlexVol == Init /\ [][NextFlexVol]_vars

----------------------------------------------------------------------------
(* Export.create_rule and Export.modify_rule with every argument *)

\* an argument the caller left out
NotGiven == [t |-> "omitted"]

RuleHostArgs == {NotGiven, PyList(<<>>), PyList(<<"h1">>)}
RuleSecFlavors == {"sys", "krb5"}

\* what a host-list parameter is bound to: the list given, or the method's default
\* list object
BoundHosts(method, param, arg) == IF arg = NotGiven THEN defaults[method][param] ELSE arg.l

\* a method that also puts the read-write hosts into its root list, in place
HostListsAfter_extending(method, root_hosts, ro_hosts, rw_hosts) ==
    IF root_hosts = NotGiven
    THEN [defaults EXCEPT ![method].root_hosts =
                            @ \o BoundHosts(method, "rw_hosts", rw_hosts)]
    ELSE defaults

\* the default list objects after a call: the methods take len() of the lists and
\* iterate over them, and change none
HostListsAfter(method, root_hosts, ro_hosts, rw_hosts) == defaults

RuleCreate ==
    \E p \in ExportPaths, nosuid \in BOOLEAN, root_hosts \in RuleHostArgs,
       ro_hosts \in RuleHostArgs, rw_hosts \in RuleHostArgs,
       sec_flavor \in RuleSecFlavors :
      LET self == Export_init("filer", p)
          req == CreateRuleRequest(self.path, nosuid,
                                   BoundHosts("create_rule", "root_hosts", root_hosts),
                                   BoundHosts("create_rule", "ro_hosts", ro_hosts),
                                   BoundHosts("create_rule", "rw_hosts", rw_hosts),
                                   sec_flavor)
      IN
      \E out \in {Passed(<<>>)} \cup ExportFailures :
        /\ Do([name |-> "create_rule", self |-> self, nosuid |-> nosuid,
               root_hosts |-> root_hosts, ro_hosts |-> ro_hosts, rw_hosts |-> rw_hosts,
               sec_flavor |-> sec_flavor],
              <<Call(req, out)>>,
              Export_create_rule(Filer_invoke_elem(out)))
        /\ rules' = IF results_status(out) = "passed" THEN AppendedRules(req) ELSE rules
        /\ defaults' = HostListsAfter("create_rule", root_hosts, ro_hosts, rw_hosts)
        /\ UNCHANGED <<autodelete, autosize, sis, shares, handles, snapvault, script>>

RuleModify ==
    \E p \in ExportPaths, nosuid \in BOOLEAN, root_hosts \in RuleHostArgs,
       ro_hosts \in RuleHostArgs, rw_hosts \in RuleHostArgs,
       sec_flavor \in RuleSecFlavors :
      LET self == Export_init("filer", p)
          req == ModifyRuleRequest(self.path, nosuid,
                                   BoundHosts("modify_rule", "root_hosts", root_hosts),
                                   BoundHosts("modify_rule", "ro_hosts", ro_hosts),
                                   BoundHosts("modify_rule", "rw_hosts", rw_hosts),
                                   sec_flavor)
      IN
      \E out \in ModifyRuleAnswers(self.path) :
        /\ Do([name |-> "modify_rule", self |-> self, nosuid |-> nosuid,
               root_hosts |-> root_hosts, ro_hosts |-> ro_hosts, rw_hosts |-> rw_hosts,
               sec_flavor |-> sec_flavor],
              <<Call(req, out)>>,
              Export_modify_rule(Filer_invoke_elem(out)))
        /\ rules' = IF results_status(out) = "passed" THEN ModifiedRules(req) ELSE rules
        /\ defaults' = HostListsAfter("modify_rule", root_hosts, ro_hosts, rw_hosts)
        /\ UNCHANGED <<autodelete, autosize, sis, shares, handles, snapvault, script>>

NextRule ==
    \/ RuleCreate
    \/ RuleModify

SpecRule == Init /\ [][NextRule]_vars

----------------------------------------------------------------------------
(* class FlexVol: the SnapVault snapshot schedules *)

\* the schedule-info / schedule / schedule-info tree of a set request
SvScheduleElem(dow, hod) ==
    Node("schedule", <<Node("snapvault-schedule-info",
                            <<NaElement("days-of-week", dow),
                              NaElement("hours-of_day", hod)>>)>>)

\* the request tree of set_sv_pri_snap_sched; retention_ct is int(retention_ct), hod is
\* str(hod)
SvPriSetRequest(self, sched, retention_ct, dow, hod) ==
    Node("snapvault-primary-set-snapshot-schedule",
         <<Node("snapshot-schedule",
                <<Node("snapvault-primary-snapshot-schedule-info",
                       <<NaElement("retention-count", StrOfNat(retention_ct)),
                         NaElement("schedule-name", sched),
                         NaElement("volume-name", self.name),
                         SvScheduleElem(dow, hod)>>)>>)>>)

\* the request tree of set_sv_sec_snap_sched
SvSecSetRequest(self, sched, auto_update, retention_ct, dow, hod) ==
    Node("snapvault-secondary-set-snapshot-schedule",
         <<Node("snapshot-schedule",
                <<Node("snapvault-secondary-snapshot-schedule-info",
                       <<NaElement("is-auto-update",
                                   IF auto_update THEN "true" ELSE "false"),
                         NaElement("retention-count", StrOfNat(retention_ct)),
                         NaElement("schedule-name", sched),
                         NaElement("volume-name", self.name),
                         SvScheduleElem(dow, hod)>>)>>)>>)

\* r is what self.filer.invoke_elem(nae) returned or raised
FlexVol_set_sv_pri_snap_sched(r) == IF r.kind = "raise" THEN r ELSE Return(PyNone)
FlexVol_set_sv_sec_snap_sched(r) == IF r.kind = "raise" THEN r ELSE Return(PyNone)

SvListRequest(role, self) ==
    ApiRequest(IF role = "primary"
               THEN "snapvault-primary-snapshot-schedule-list-info"
               ELSE "snapvault-secondary-snapshot-schedule-list-info",
               <<"volume-name", self.name>>)

\* the loop of the getters over the schedule elements, scheds the dict so far; the
\* secondary getter also decodes is-auto-update
RECURSIVE SvSchedLoop(_, _, _)
SvSchedLoop(items, secondary, scheds) ==
    IF items = <<>> THEN Return(PyDict(scheds))
    ELSE LET schedxml == Head(items)
             name == child_get_string(schedxml, "schedule-name")
             count == child_get_int(schedxml, "retention-count")
             schedinfo == child_get(child_get(schedxml, "schedule"),
                                    "snapvault-schedule-info")
             timing == ("retention-count" :> (IF count.kind = "raise" THEN PyNone
                                              ELSE count.value))
                       @@ ("days-of-week" :>
                             PyStrOrNone(child_get_string(schedinfo, "days-of-week")))
                       @@ ("hours-of-day" :>
                             PyStrOrNone(child_get_string(schedinfo, "hours-of-day")))
             sched == IF secondary
                      THEN timing @@ ("is-auto-update" :>
                             PyBool(child_get_string(schedxml, "is-auto-update") = "true"))
                      ELSE timing
         IN  IF count.kind = "raise" THEN count
             ELSE IF child_get(schedxml, "schedule") = NoneElem \/ schedinfo = NoneElem
                  THEN Raise(AttributeError)
                  ELSE SvSchedLoop(Tail(items), secondary,
                                   [n \in DOMAIN scheds \cup {name} |->
                                      IF n = name THEN sched ELSE scheds[n]])

\* r is what self.filer.invoke('snapvault-primary-snapshot-schedule-list-info', ...) gave
FlexVol_get_sv_pri_snap_sched(r) ==
    IF r.kind = "raise" THEN r
    ELSE IF child_get(r.value.e, "snapshot-schedules") = NoneElem
         THEN Raise(AttributeError)
         ELSE SvSchedLoop(children_get(child_get(r.value.e, "snapshot-schedules")),
                          FALSE, <<>>)

FlexVol_get_sv_sec_snap_sched(r) ==
    IF r.kind = "raise" THEN r
    ELSE IF child_get(r.value.e, "snapshot-schedules") = NoneElem
         THEN Raise(AttributeError)
         ELSE SvSchedLoop(children_get(child_get(r.value.e, "snapshot-schedules")),
                          TRUE, <<>>)

----------------------------------------------------------------------------
(* The appliance's SnapVault schedules *)

\* the fields of snapvault-schedule-info the appliance knows, and what it takes for
\* one of them that a request leaves out
SvTimingFields == {"days-of-week", "hours-of-day"}
SvTimingDefault(field) == IF field = "days-of-week" THEN "mon-sun" ELSE "0"

SvRequestInfo(req) == child_get(req, "snapshot-schedule").children[1]
SvRequestTiming(req) ==
    child_get(child_get(SvRequestInfo(req), "schedule"), "snapvault-schedule-info")

\* whether the request carries a timing field the appliance does not know
SvHasUnknownField(req) ==
    \E i \in 1..Len(SvRequestTiming(req).children) :
      SvRequestTiming(req).children[i].name \notin SvTimingFields

SvTimingOf(req, field) ==
    IF child_get(SvRequestTiming(req), field) = NoneElem THEN SvTimingDefault(field)
    ELSE child_get_string(SvRequestTiming(req), field)

\* the schedule the appliance keeps, and lists, for a set request it passed
SvStoredSchedule(req) ==
    LET info == SvRequestInfo(req)
        known == SelectSeq(info.children, LAMBDA c : c.name # "schedule")
    IN  Node(info.name,
             known \o <<Node("schedule",
                             <<Node("snapvault-schedule-info",
                                    <<NaElement("days-of-week",
                                                SvTimingOf(req, "days-of-week")),
                                      NaElement("hours-of-day",
                                                SvTimingOf(req, "hours-of-day"))>>)>>)>>)

SvAfterSet(role, req) ==
    [snapvault EXCEPT ![role][child_get_string(SvRequestInfo(req), "schedule-name")] =
                        SvStoredSchedule(req)]

\* the appliance passes a set request, or refuses it; a field it does not know it
\* leaves aside or refuses
SvSetAnswers(req) ==
    {Passed(<<>>), Failed("13040", "No such volume")}
    \cup (IF SvHasUnknownField(req) THEN {Failed("13115", "Extra input")} ELSE {})

SvListAnswers(role) ==
    {Passed(<<Node("snapshot-schedules",
                   IF snapvault[role][n] = NoneElem THEN <<>> ELSE <<snapvault[role][n]>>)>>)
       : n \in ScheduleNames}
    \cup {Failed("13040", "No such volume")}

----------------------------------------------------------------------------
(* The SnapVault schedule operations as actions *)

SnapvaultVolume == FlexVol_init(<<"v", "1">>)
RetentionCounts == {2, 7}
DaysOfWeek == {"mon-sun", "mon-fri"}
HoursOfDay == {"0", "8"}

SetSvPriSnapSched ==
    \E sched \in ScheduleNames, retention_ct \in RetentionCounts, dow \in DaysOfWeek,
       hod \in HoursOfDay :
      LET self == SnapvaultVolume
          req == SvPriSetRequest(self, sched, retention_ct, dow, hod)
      IN
      \E out \in SvSetAnswers(req) :
        /\ Do([name |-> "set_sv_pri_snap_sched", self |-> self, sched |-> sched,
               retention_ct |-> retention_ct, dow |-> dow, hod |-> hod],
              <<Call(req, out)>>,
              FlexVol_set_sv_pri_snap_sched(Filer_invoke_elem(out)))
        /\ snapvault' = IF results_status(out) = "passed" THEN SvAfterSet("primary", req)
                        ELSE snapvault
        /\ UNCHANGED <<rules, autodelete, autosize, sis, shares, handles, defaults, script>>

SetSvSecSnapSched ==
    \E sched \in ScheduleNames, auto_update \in BOOLEAN, retention_ct \in RetentionCounts,
       dow \in DaysOfWeek, hod \in HoursOfDay :
      LET self == SnapvaultVolume
          req == SvSecSetRequest(self, sched, auto_update, retention_ct, dow, hod)
      IN
      \E out \in SvSetAnswers(req) :
        /\ Do([name |-> "set_sv_sec_snap_sched", self |-> self, sched |-> sched,
               auto_update |-> auto_update, retention_ct |-> retention_ct, dow |-> dow,
               hod |-> hod],
              <<Call(req, out)>>,
              FlexVol_set_sv_sec_snap_sched(Filer_invoke_elem(out)))
        /\ snapvault' = IF results_status(out) = "passed" THEN SvAfterSet("secondary", req)
                        ELSE snapvault
        /\ UNCHANGED <<rules, autodelete, autosize, sis, shares, handles, defaults, script>>

GetSvPriSnapSched ==
    LET self == SnapvaultVolume IN
    \E out \in SvListAnswers("primary") :
      /\ Do([name |-> "get_sv_pri_snap_sched", self |-> self],
            <<Call(SvListRequest("primary", self), out)>>,
            FlexVol_get_sv_pri_snap_sched(Filer_invoke(out)))
      /\ UNCHANGED <<rules, autodelete, autosize, sis, shares, handles, defaults, snapvault, script>>

GetSvSecSnapSched ==
    LET self == SnapvaultVolume IN
    \E out \in SvListAnswers("secondary") :
      /\ Do([name |-> "get_sv_sec_snap_sched", self |-> self],
            <<Call(SvListRequest("secondary", self), out)>>,
            FlexVol_get_sv_sec_snap_sched(Filer_invoke(out)))
      /\ UNCHANGED <<rules, autodelete, autosize, sis, shares, handles, defaults, snapvault, script>>

NextSnapvault ==
    \/ SetSvPriSnapSched
    \/ SetSvSecSnapSched
    \/ GetSvPriSnapSched
    \/ GetSvSecSnapSched

SpecSnapvault == Init /\ [][NextSnapvault]_vars

----------------------------------------------------------------------------
(* The backup script: VMware snapshots around a SnapVault snapshot, per datastore *)

\* the configuration: the datastores in the order of the file, the VMs registered on
\* each, the primary volume, and the secondary volume where one is configured
Datastores ==
    <<[name |-> "ds1", vms |-> {"vm1", "vm2"}, pri_vol |-> <<"v", "1">>,
       secondary |-> TRUE, sec_vol |-> <<"v", "2">>],
      [name |-> "ds2", vms |-> {}, pri_vol |-> <<"v", "3">>,
       secondary |-> FALSE, sec_vol |-> <<>>],
      [name |-> "ds3", vms |-> {"vm3"}, pri_vol |-> <<"v", "4">>,
       secondary |-> FALSE, sec_vol |-> <<>>]>>

\* set_mode_from_args: dry_run is the --noexec flag
set_mode_from_args(noexec) == IF noexec THEN TRUE ELSE FALSE

\* clean_vm_snaps: the VMs for which the removal of the 'backup' snapshot is attempted
\* (get_vm_by_path and delete_named_snapshot in the try block)
clean_vm_snaps(vms, skip_vms, dry_run) == IF dry_run THEN {} ELSE vms \ skip_vms

\* the state-changing calls made when the snapshots of vms are removed
RemovalCalls(vms) == IF vms = {} THEN {} ELSE {"delete_named_snapshot"}

\* what the session may answer to the volume-list-info of get_volume and to a
\* snapvault-*-initiate-snapshot-create
ScriptVolumeAnswers ==
    {Passed(<<>>), Failed("13040", "No such volume"), Failed("13001", "Unable to connect")}
ScriptSnapAnswers == {Passed(<<>>), Failed("13001", "Unable to connect")}

SnapvaultSnapRequest(role, self, schedule) ==
    ApiRequest(IF role = "primary" THEN "snapvault-primary-initiate-snapshot-create"
               ELSE "snapvault-secondary-initiate-snapshot-create",
               <<"volume-name", self.name, "schedule-name", schedule>>)

\* r is what self.filer.invoke('snapvault-primary-initiate-snapshot-create', ...) gave
FlexVol_snapvault_primary_snap(r) == IF r.kind = "raise" THEN r ELSE Return(PyNone)
FlexVol_snapvault_secondary_snap(r) == IF r.kind = "raise" THEN r ELSE Return(PyNone)

\* set_mode_from_args and the connections: the script is at the first datastore
ScriptStart ==
    /\ script.pc = "none"
    /\ \E noexec \in BOOLEAN :
         /\ script' = [pc |-> "datastore", dry_run |-> set_mode_from_args(noexec), ds |-> 1,
                       todo |-> {}, vms |-> {}, off_vms |-> {}, created |-> {},
                       removed |-> {}, changes |-> {}]
         /\ Do([name |-> "backup: start", noexec |-> noexec], <<>>, Return(PyNone))
    /\ UNCHANGED <<rules, autodelete, autosize, sis, shares, handles, defaults, snapvault>>

\* the head of the per-datastore loop: a datastore without VMs is passed over
ScriptDatastore ==
    /\ script.pc = "datastore"
    /\ script.ds <= Len(Datastores)
    /\ LET datastore == Datastores[script.ds] IN
       script' = IF datastore.vms = {}
                 THEN [script EXCEPT !.ds = @ + 1]
                 ELSE [script EXCEPT !.pc = "vms", !.todo = datastore.vms,
                                     !.vms = datastore.vms, !.off_vms = {},
                                     !.created = {}, !.removed = {}]
    /\ Do([name |-> "backup: datastore", ds |-> script.ds], <<>>, Return(PyNone))
    /\ UNCHANGED <<rules, autodelete, autosize, sis, shares, handles, defaults, snapvault>>

\* one round of the VM loop: the VM is not found (and dropped from the datastore's
\* VMs), is powered off, or gets create_snapshot unless this is a dry run; a failed
\* create_snapshot is reported and the loop goes on
ScriptVm ==
    /\ script.pc = "vms"
    /\ \E vmx \in script.todo, found \in {"missing", "off", "on"} :
         /\ script' =
              CASE found = "missing" ->
                     [script EXCEPT !.todo = @ \ {vmx}, !.vms = @ \ {vmx}]
                [] found = "off" ->
                     [script EXCEPT !.todo = @ \ {vmx}, !.off_vms = @ \cup {vmx}]
                [] found = "on" ->
                     IF script.dry_run
                     THEN [script EXCEPT !.todo = @ \ {vmx}]
                     ELSE [script EXCEPT !.todo = @ \ {vmx},
                                         !.created = @ \cup {vmx},
                                         !.changes = @ \cup {"create_snapshot"}]
         /\ Do([name |-> "backup: vm", vmx |-> vmx, found |-> found], <<>>,
               Return(PyNone))
    /\ UNCHANGED <<rules, autodelete, autosize, sis, shares, handles, defaults, snapvault>>

\* the NetApp step and what follows it for the datastore. g is what get_volume returned
\* or raised and s what snapvault_primary_snap returned or raised (when it is called).
\*   OntapApiException from either: the handler calls clean_vm_snaps without the
\*     dry_run argument, and raises again
\*   get_volume returned False: pri_vol.snapvault_primary_snap is an attribute of a
\*     bool, AttributeError, which 'except: raise' passes on with no clean-up; in a
\*     dry run the attribute is not touched
\*   otherwise clean_vm_snaps(..., dry_run) and on to the next datastore
NetappStep(sc, g, s) ==
    LET handler == [sc EXCEPT
                      !.pc = "raised",
                      !.removed = @ \cup clean_vm_snaps(sc.vms, sc.off_vms, FALSE),
                      !.changes = @ \cup RemovalCalls(clean_vm_snaps(sc.vms, sc.off_vms,
                                                                     FALSE))]
        after == [sc EXCEPT
                    !.pc = "datastore", !.ds = @ + 1,
                    !.removed = @ \cup clean_vm_snaps(sc.vms, sc.off_vms, sc.dry_run),
                    !.changes = @ \cup RemovalCalls(clean_vm_snaps(sc.vms, sc.off_vms,
                                                                   sc.dry_run))]
        snapped(x) == [x EXCEPT !.changes = @ \cup {"snapvault_primary_snap"}]
    IN  IF g.kind = "raise" THEN [state |-> handler, ret |-> g]
        ELSE IF sc.dry_run THEN [state |-> after, ret |-> Return(PyNone)]
        ELSE IF g.value = PyBool(FALSE)
             THEN [state |-> [sc EXCEPT !.pc = "raised"], ret |-> Raise(AttributeError)]
        ELSE IF s.kind = "raise" THEN [state |-> snapped(handler), ret |-> s]
        ELSE [state |-> snapped(after), ret |-> Return(PyNone)]

\* the invocations of the step: volume-list-info, and the snapshot request when
\* snapvault_primary_snap / snapvault_secondary_snap is called
SnapCalls(role, dry_run, volume, out, snap_out) ==
    LET g == Filer_get_volume(volume, Filer_has_volume(Filer_invoke(out))) IN
    <<Call(ApiRequest("volume-list-info", <<"volume", volume>>), out)>>
    \o (IF g.kind = "return" /\ g.value # PyBool(FALSE) /\ ~dry_run
        THEN <<Call(SnapvaultSnapRequest(role, g.value, "sv_daily"), snap_out)>>
        ELSE <<>>)

ScriptNetapp ==
    /\ script.pc = "vms"
    /\ script.todo = {}
    /\ \E out \in ScriptVolumeAnswers, snap_out \in ScriptSnapAnswers :
         LET datastore == Datastores[script.ds]
             g == Filer_get_volume(datastore.pri_vol, Filer_has_volume(Filer_invoke(out)))
             s == FlexVol_snapvault_primary_snap(Filer_invoke(snap_out))
             step == NetappStep(script, g, s)
         IN  /\ script' = step.state
             /\ Do([name |-> "backup: netapp", ds |-> script.ds],
                   SnapCalls("primary", script.dry_run, datastore.pri_vol, out, snap_out),
                   step.ret)
    /\ UNCHANGED <<rules, autodelete, autosize, sis, shares, handles, defaults, snapvault>>

\* the per-datastore loop is over: on to the transfers to the secondaries
ScriptBackupsDone ==
    /\ script.pc = "datastore"
    /\ script.ds > Len(Datastores)
    /\ script' = [script EXCEPT !.pc = "secondary", !.ds = 1]
    /\ Do([name |-> "backup: backups done"], <<>>, Return(PyNone))
    /\ UNCHANGED <<rules, autodelete, autosize, sis, shares, handles, defaults, snapvault>>

\* one round of the second loop, in which nothing is caught: a datastore without a
\* secondary or whose secondary volume does not exist is passed over
SecondaryStep(sc, g, s) ==
    LET next == [sc EXCEPT !.ds = @ + 1]
        snapped(x) == [x EXCEPT !.changes = @ \cup {"snapvault_secondary_snap"}]
    IN  IF g.kind = "raise" THEN [state |-> [sc EXCEPT !.pc = "raised"], ret |-> g]
        ELSE IF g.value = PyBool(FALSE) \/ sc.dry_run
             THEN [state |-> next, ret |-> Return(PyNone)]
        ELSE IF s.kind = "raise"
             THEN [state |-> snapped([sc EXCEPT !.pc = "raised"]), ret |-> s]
        ELSE [state |-> snapped(next), ret |-> Return(PyNone)]

ScriptSecondary ==
    /\ script.pc = "secondary"
    /\ script.ds <= Len(Datastores)
    /\ LET datastore == Datastores[script.ds] IN
       IF ~datastore.secondary
       THEN /\ script' = [script EXCEPT !.ds = @ + 1]
            /\ Do([name |-> "backup: secondary", ds |-> script.ds], <<>>, Return(PyNone))
       ELSE \E out \in ScriptVolumeAnswers, snap_out \in ScriptSnapAnswers :
              LET g == Filer_get_volume(datastore.sec_vol,
                                        Filer_has_volume(Filer_invoke(out)))
                  s == FlexVol_snapvault_secondary_snap(Filer_invoke(snap_out))
                  step == SecondaryStep(script, g, s)
              IN  /\ script' = step.state
                  /\ Do([name |-> "backup: secondary", ds |-> script.ds],
                        SnapCalls("secondary", script.dry_run, datastore.sec_vol, out,
                                  snap_out),
                        step.ret)
    /\ UNCHANGED <<rules, autodelete, autosize, sis, shares, handles, defaults, snapvault>>

ScriptEnd ==
    /\ script.pc = "secondary"
    /\ script.ds > Len(Datastores)
    /\ script' = [script EXCEPT !.pc = "done"]
    /\ Do([name |-> "backup: end"], <<>>, Return(PyNone))
    /\ UNCHANGED <<rules, autodelete, autosize, sis, shares, handles, defaults, snapvault>>

NextScript ==
    \/ ScriptStart
    \/ ScriptDatastore
    \/ ScriptVm
    \/ ScriptNetapp
    \/ ScriptBackupsDone
    \/ ScriptSecondary
    \/ ScriptEnd

SpecScript == Init /\ [][NextScript]_vars

----------------------------------------------------------------------------
(* The specification of the Filer wrappers and the fault-mapping getters *)

Next ==
    \/ Invoke
    \/ InvokeElem
    \/ InvokeCli
    \/ HasVolume
    \/ GetSisState
    \/ GetPriorityCachePolicy

Spec == Init /\ [][Next]_vars

----------------------------------------------------------------------------
(* Properties *)

\* the results element the session gave to the last operation's only invocation
Out == calls[1].out
OutFailed == results_status(Out) = "failed"
OutFault == Raise(OntapApiException(results_errno(Out), results_reason(Out)))

\* C1: has_volume returns False, raising nothing, when volume-list-info fails with
\* code 13040; it raises the fault (same code and reason) for every other code; it
\* returns True when the invocation succeeds.
C1_HasVolume ==
    op.name = "has_volume" =>
      /\ (OutFailed /\ results_errno(Out) = "13040") => ret = Return(PyBool(FALSE))
      /\ (OutFailed /\ results_errno(Out) # "13040") => ret = OutFault
      /\ ~OutFailed => ret = Return(PyBool(TRUE))

C1_Witness ==
    /\ op.name = "has_volume"
    /\ OutFailed /\ results_errno(Out) = "13040"
    /\ ret = Return(PyBool(FALSE))

\* C2: get_sis_state returns 'Disabled' when sis-status fails with code 13001, raises
\* the fault for every other code, and on success returns the string at
\* sis-object/dense-status/state of the response unchanged.
C2_GetSisState ==
    op.name = "get_sis_state" =>
      /\ (OutFailed /\ results_errno(Out) = "13001") => ret = Return(PyStr("Disabled"))
      /\ (OutFailed /\ results_errno(Out) # "13001") => ret = OutFault
      /\ ~OutFailed =>
           ret = Return(PyStr(child_get_string(
                     child_get(child_get(Out, "sis-object"), "dense-status"), "state")))

C2_Witness ==
    /\ op.name = "get_sis_state"
    /\ OutFailed /\ results_errno(Out) = "13001"
    /\ ret = Return(PyStr("Disabled"))

\* C3: on a fault of priority-list-info-volume, get_priority_cache_policy returns
\* 'default' only when the fault has both code 2 and reason 'unable to find volume';
\* a fault matching only one of them, or neither, is raised to the caller.
C3_GetPriorityCachePolicy ==
    (op.name = "get_priority_cache_policy" /\ OutFailed) =>
      IF results_errno(Out) = "2" /\ results_reason(Out) = "unable to find volume"
      THEN ret = Return(PyStr("default"))
      ELSE ret = OutFault

\* the near miss: the code matches, the reason does not, and the fault is raised
C3_Witness ==
    /\ op.name = "get_priority_cache_policy"
    /\ OutFailed
    /\ results_errno(Out) = "2" /\ results_reason(Out) # "unable to find volume"
    /\ ret = OutFault

\* C4: invoke, invoke_elem and invoke_cli each make exactly one session call; when the
\* result's status is 'failed' they raise OntapApiException with the result's code and
\* reason, and otherwise they return the session's response unchanged.
C4_InvokeWrappers ==
    op.name \in {"invoke", "invoke_elem", "invoke_cli"} =>
      /\ Len(calls) = 1
      /\ OutFailed => ret = OutFault
      /\ ~OutFailed => ret = Return(PyElem(Out))

C4_Witness ==
    /\ op.name = "invoke_cli"
    /\ Len(calls) = 1
    /\ OutFailed
    /\ ret = OutFault

\* C5: configured() returns False, raising nothing, for a path with no rule on the
\* appliance, and returns True when it is called right after a successful
\* create_rule for the same path (the appliance answering the rule query).
C5_ConfiguredAfterCreate ==
    [][ (op'.name = "configured" /\ results_status(calls'[1].out) = "passed") =>
          /\ rules[op'.self.path] = NoneElem => ret' = Return(PyBool(FALSE))
          /\ (op.name = "create_rule" /\ ret.kind = "return" /\ op.self = op'.self)
               => ret' = Return(PyBool(TRUE)) ]_vars

C5_Witness ==
    /\ op.name = "configured"
    /\ rules[op.self.path] # NoneElem
    /\ ret = Return(PyBool(TRUE))

\* C6: after create_rule() with no root, read-only or read-write host lists (so that
\* the appliance grants read-write access to all hosts), get_rw_hosts() returns
\* something that can be read as 'all hosts', and not an empty list.
C6_RwHostsAfterDefaultCreate ==
    [][ ( /\ op.name = "create_rule" /\ ret.kind = "return"
          /\ op.root_hosts = <<>> /\ op.ro_hosts = <<>> /\ op.rw_hosts = <<>>
          /\ op'.name = "get_rw_hosts" /\ op'.self = op.self
          /\ results_status(calls'[1].out) = "passed" )
        => ret' # Return(PyList(<<>>)) ]_vars

\* C7: get_nosuid returns '' (not False) when no rule exists for the path, and a
\* boolean when one exists: True iff the rule's nosuid field is 'true', False when
\* the field has another value or is missing.
ListedRule == child_get(child_get(Out, "rules"), "exports-rule-info")

C7_GetNosuid ==
    (op.name = "get_nosuid" /\ ~OutFailed) =>
      IF rules[op.self.path] = NoneElem
      THEN ret = Return(PyStr(""))
      ELSE ret = Return(PyBool(child_get_string(ListedRule, "nosuid") = "true"))

C7_Witness ==
    /\ op.name = "get_nosuid"
    /\ ~OutFailed
    /\ rules[op.self.path] = NoneElem
    /\ ret = Return(PyStr(""))

\* the rule exists, its nosuid field is not listed, and the answer is the boolean False
C7_WitnessMissingField ==
    /\ op.name = "get_nosuid"
    /\ ~OutFailed
    /\ rules[op.self.path] # NoneElem
    /\ child_get(ListedRule, "nosuid") = NoneElem
    /\ ret = Return(PyBool(FALSE))

\* what the claim expects under name after set_snap_autodelete_option(name, value)
C8_Expected(option_name, value) ==
    IF option_name = TargetFreeSpace
    THEN PyInt(IntOfStr(PyToStr(value)))
    ELSE PyStr(PyToStr(value))

\* C8: after set_snap_autodelete_option(name, value), get_snap_autodelete() yields a
\* dict that holds value under name, decoded as an integer exactly for the declared
\* integer option name target_free_space and as a string for every other name.
C8_AutodeleteRoundTrip ==
    [][ ( /\ op.name = "set_snap_autodelete_option" /\ ret.kind = "return"
          /\ op'.name = "get_snap_autodelete" /\ op'.self = op.self
          /\ results_status(calls'[1].out) = "passed" )
        => /\ ret'.kind = "return"
           /\ op.option_name \in DOMAIN ret'.value.d
           /\ ret'.value.d[op.option_name] = C8_Expected(op.option_name, op.value) ]_vars

HasVolPrefix(s) == Len(s) >= Len(VolPrefix) /\ SubSeq(s, 1, Len(VolPrefix)) = VolPrefix
AfterVolPrefix(s) == SubSeq(s, Len(VolPrefix) + 1, Len(s))

\* a volume name: a non-empty line of text that is not itself a '/vol/' path
IsVolumeName(n) == n # <<>> /\ NoNewline(n) /\ ~HasVolPrefix(n)

\* C9: for every volume name n, FlexVol(filer, '/vol/' + n) and FlexVol(filer, n) have
\* identical name fields and identical path fields.
C9_SameFromNameAndPath ==
    [][ ( /\ op.name = "FlexVol" /\ op'.name = "FlexVol"
          /\ IsVolumeName(op.arg)
          /\ op'.arg = VolPrefix \o op.arg )
        => /\ ret'.value.name = ret.value.name
           /\ ret'.value.path = ret.value.path ]_vars

C9_Witness ==
    /\ op.name = "FlexVol"
    /\ op.arg = VolPrefix \o <<"x">>
    /\ ret.value.name = <<"x">>
    /\ ret.value.path = VolPrefix \o <<"x">>

\* C10 as claimed: whatever string a FlexVol was constructed from (a bare name, a full
\* path, a string with a repeated '/vol/' prefix), its name does not begin with '/vol/'
\* and its path is '/vol/' followed by its name.
C10_NameNeverHasPrefix ==
    op.name = "FlexVol" =>
      /\ ~HasVolPrefix(ret.value.name)
      /\ ret.value.path = VolPrefix \o ret.value.name

\* C10 as amended: the path of every FlexVol is '/vol/' followed by its name; the name
\* does not begin with '/vol/' when the FlexVol was constructed from a volume name or
\* from '/vol/' followed by a volume name; one prefix is stripped and no more, so a
\* string with a repeated prefix gives a name that keeps the second prefix.
C10_PrefixStrippedOnce ==
    op.name = "FlexVol" =>
      /\ ret.value.path = VolPrefix \o ret.value.name
      /\ IsVolumeName(op.arg) => ret.value.name = op.arg
      /\ (HasVolPrefix(op.arg) /\ IsVolumeName(AfterVolPrefix(op.arg)))
           => ret.value.name = AfterVolPrefix(op.arg)
      /\ (HasVolPrefix(op.arg) /\ HasVolPrefix(AfterVolPrefix(op.arg)))
           => HasVolPrefix(ret.value.name)

C10_Witness ==
    /\ op.name = "FlexVol"
    /\ op.arg = VolPrefix \o VolPrefix \o <<"x">>
    /\ ret.value.name = VolPrefix \o <<"x">>
    /\ ret.value.path = VolPrefix \o VolPrefix \o <<"x">>

\* the whole number nearest to kb / 1048576, or one of the two when kb is half-way
IsNearestGb(n, kb) ==
    LET d == n * KbPerGb - kb IN 2 * (IF d < 0 THEN -d ELSE d) <= KbPerGb

\* the number of KB the last autosize query's response carries in field
DecodedKb(field) == IntOfStr(child_get_string(Out, field))

\* what the claim asks of a ..._gb getter that decoded kb
C11_Rounded(kb) ==
    /\ \E n \in 0..(kb \div KbPerGb + 1) :
         IsNearestGb(n, kb) /\ ret = Return(PyStr(StrOfNat(n) \o <<"g">>))
    /\ kb = 1048576 => ret = Return(PyStr(<<"1", "g">>))
    /\ kb = 0 => ret = Return(PyStr(<<"0", "g">>))

\* C11: for every non-negative integer kb decoded as the increment-size (resp. the
\* maximum-size), get_autosize_increment_gb (resp. get_autosize_max_size_gb) returns
\* the decimal numeral of kb / 1048576 rounded to the nearest whole number, followed
\* by 'g': '1g' for 1048576 and '0g' for 0.
C11_AutosizeGb ==
    /\ (op.name = "get_autosize_increment_gb" /\ ~OutFailed)
         => C11_Rounded(DecodedKb("increment-size"))
    /\ (op.name = "get_autosize_max_size_gb" /\ ~OutFailed)
         => C11_Rounded(DecodedKb("maximum-size"))

\* 1600 MB are 1.5625 GB and round up to 2
C11_Witness ==
    /\ op.name = "get_autosize_increment_gb"
    /\ ~OutFailed
    /\ DecodedKb("increment-size") = 1600 * 1024
    /\ ret = Return(PyStr(<<"2", "g">>))

\* a tie: 2560 MB are 2.5 GB, and the answer is '2g' or '3g' with the interpreter
C11_WitnessTie ==
    /\ op.name = "get_autosize_max_size_gb"
    /\ ~OutFailed
    /\ DecodedKb("maximum-size") = 2560 * 1024
    /\ ret = Return(PyStr(<<"2", "g">>))

\* the invocations of a call sequence cs that carry field
Carrying(cs, field) == {i \in 1..Len(cs) : child_get(cs[i].req, field) # NoneElem}

\* C12: set_autosize_state issues an 'increment-size' invocation iff increment_size
\* was supplied and a 'maximum-size' invocation iff maximum_size was supplied (in a
\* call that no fault stops); when an argument is omitted, no invocation carries that
\* field and the appliance's stored value for it is unchanged by the call.
C12_AutosizeOnlySupplied ==
    [][ op'.name = "set_autosize_state" =>
          /\ op'.increment_size = Omitted =>
                /\ Carrying(calls', "increment-size") = {}
                /\ autosize'.increment = autosize.increment
          /\ op'.maximum_size = Omitted =>
                /\ Carrying(calls', "maximum-size") = {}
                /\ autosize'.maximum = autosize.maximum
          /\ (op'.increment_size # Omitted /\ ret'.kind = "return") =>
                /\ Cardinality(Carrying(calls', "increment-size")) = 1
                /\ \A i \in Carrying(calls', "increment-size") :
                     child_get_string(calls'[i].req, "increment-size")
                       = op'.increment_size.s
          /\ (op'.maximum_size # Omitted /\ ret'.kind = "return") =>
                /\ Cardinality(Carrying(calls', "maximum-size")) = 1
                /\ \A i \in Carrying(calls', "maximum-size") :
                     child_get_string(calls'[i].req, "maximum-size")
                       = op'.maximum_size.s ]_vars

\* a call that gives the maximum and omits the increment, on a volume whose increment
\* an earlier call has set: two invocations, and the increment is still there
C12_Witness ==
    /\ op.name = "set_autosize_state"
    /\ op.increment_size = Omitted /\ op.maximum_size # Omitted
    /\ ret = Return(PyNone)
    /\ Len(calls) = 2
    /\ Carrying(calls, "maximum-size") = {2}
    /\ autosize.increment = 1024 * 1024

RecognizedSisStates == {"enabled", "Enabled", "disabled", "Disabled"}

\* C13: set_sis_state(state) with a state other than 'enabled', 'Enabled', 'disabled'
\* or 'Disabled' raises OntapException, which carries only a reason, and issues no
\* session invocation, so that the appliance's state is unchanged; with a recognized
\* state it issues exactly one invocation, 'sis-enable' or 'sis-disable' accordingly.
C13_SetSisState ==
    [][ op'.name = "set_sis_state" =>
          IF op'.state \in RecognizedSisStates
          THEN /\ Len(calls') = 1
               /\ calls'[1].req.name =
                    (IF op'.state \in {"enabled", "Enabled"}
                     THEN "sis-enable" ELSE "sis-disable")
          ELSE /\ ret'.kind = "raise"
               /\ ret'.exc.class = "OntapException"
               /\ DOMAIN ret'.exc = {"class", "reason"}
               /\ calls' = <<>>
               /\ <<rules, autodelete, autosize, sis, shares>>'
                    = <<rules, autodelete, autosize, sis, shares>> ]_vars

\* an unknown state on a volume that an earlier call has enabled
C13_Witness ==
    /\ op.name = "set_sis_state"
    /\ op.state = "ENABLED"
    /\ ret = Raise(OntapException("Unknown sis state."))
    /\ calls = <<>>
    /\ sis = "Enabled"

\* the children of the first child of tree named outer (none when there is no such child)
OuterItems(tree, outer) ==
    IF \E i \in 1..Len(tree.children) : tree.children[i].name = outer
    THEN (tree.children[CHOOSE i \in 1..Len(tree.children) :
                           /\ tree.children[i].name = outer
                           /\ \A j \in 1..(i - 1) : tree.children[j].name # outer]).children
    ELSE <<>>

\* whether an element has a child named inner, and the content of the first such child
HasInner(item, inner) == \E i \in 1..Len(item.children) : item.children[i].name = inner
InnerValue(item, inner) ==
    item.children[CHOOSE i \in 1..Len(item.children) :
                     /\ item.children[i].name = inner
                     /\ \A j \in 1..(i - 1) : item.children[j].name # inner].content

\* C14: _xmltree_to_list(tree, outer, inner) returns, in the order of the response, the
\* inner value of each child of the tree's outer child that has one, and returns the
\* empty list, raising nothing, whenever the tree has no child named outer.
C14_XmltreeToList ==
    op.name = "_xmltree_to_list" =>
      LET items == OuterItems(op.nae, op.outer_name)
          with == {i \in 1..Len(items) : HasInner(items[i], op.inner_name)}
      IN  /\ ret.kind = "return"
          /\ Len(ret.value.l) = Cardinality(with)
          /\ \A i \in with :
               ret.value.l[Cardinality({j \in with : j <= i})]
                 = InnerValue(items[i], op.inner_name)
          /\ (\A i \in 1..Len(op.nae.children) : op.nae.children[i].name # op.outer_name)
               => ret = Return(PyList(<<>>))

\* two items, the first without a value and the second with the empty value
C14_Witness ==
    /\ op.name = "_xmltree_to_list"
    /\ op.outer_name = "read-write"
    /\ Len(OuterItems(op.nae, op.outer_name)) = 2
    /\ ~HasInner(OuterItems(op.nae, op.outer_name)[1], "name")
    /\ ret = Return(PyList(<<"">>))

\* no child named outer: the empty list
C14_WitnessNoOuter ==
    /\ op.name = "_xmltree_to_list"
    /\ op.outer_name = "read-only"
    /\ Len(op.nae.children) = 2
    /\ ret = Return(PyList(<<>>))

\* the places where a share name may end: before white space that a '/' follows
C15_NameEnds(line) ==
    {e \in 1..Len(line) :
       /\ ~IsSpace(line[e])
       /\ \E k \in (e + 2)..Len(line) :
            /\ line[k] = "/"
            /\ \A j \in (e + 1)..(k - 1) : IsSpace(line[j])}

\* the share name of a listing line: the text from its first character, which is not
\* white space, to the white space before the mount point, the first '/' after white
\* space; <<>> for a line that is not made this way
C15_ShareName(line) ==
    IF Len(line) >= 1 /\ ~IsSpace(line[1]) /\ C15_NameEnds(line) # {}
    THEN <<SubSeq(line, 1, Least(C15_NameEnds(line)))>>
    ELSE <<>>

\* the Shares the claim expects for the lines of a listing
C15_Expected(content) ==
    LET output == SplitLines(content)
        body == SubSeq(output, 3, Len(output))
        names == SelectSeq([i \in 1..Len(body) |-> C15_ShareName(body[i])],
                           LAMBDA m : m # <<>>)
    IN  PyList([i \in 1..Len(names) |-> Share_init("filer", names[i][1])])

\* C15: get_shares ignores the first two lines of the listing and returns, in listing
\* order, one Share for every later line made of a share name that begins the line,
\* white space and a mount point beginning with '/', the Share's name being exactly
\* that line's share name (without the mount point or the comment); every other line
\* is skipped without error.
C15_GetShares ==
    (op.name = "get_shares" /\ ~OutFailed) => ret = Return(C15_Expected(op.content))

\* the lines of the output the last share command got from the appliance
OutputLines == SplitLines(child_get(Out, "cli-output").content)

\* C16 as claimed: Share.configured() issues one share-detail invocation ('cifs shares
\* <name>') and returns False exactly when the first line of that command's output is
\* the appliance's 'No share is matching that name.' message, True otherwise.
C16_FirstLineOfOutput ==
    (op.name = "Share.configured" /\ ~OutFailed) =>
      /\ Len(calls) = 1
      /\ CliArgs(calls[1].req) = <<"cifs", "shares", op.self.name>>
      /\ IF Len(OutputLines) >= 1 /\ OutputLines[1] = NoShareMessage
         THEN ret = Return(PyBool(FALSE))
         ELSE ret = Return(PyBool(TRUE))

\* C16 as amended: Share.configured() issues one share-detail invocation ('cifs shares
\* <name>'), drops the first two lines of the command's output as header lines, and
\* returns False exactly when the line after them, the third line of the output,
\* begins with 'No share is matching that name.'; it returns True otherwise, also for
\* an output of fewer than three lines.
C16_FirstLineAfterHeaders ==
    (op.name = "Share.configured" /\ ~OutFailed) =>
      /\ Len(calls) = 1
      /\ CliArgs(calls[1].req) = <<"cifs", "shares", op.self.name>>
      /\ IF Len(OutputLines) >= 3 /\ IsPrefix(NoShareMessage, OutputLines[3])
         THEN ret = Return(PyBool(FALSE))
         ELSE ret = Return(PyBool(TRUE))

\* no share of the name, the message after the two header lines: False
C16_Witness ==
    /\ op.name = "Share.configured"
    /\ ~OutFailed
    /\ shares[op.self.name] = NoShare
    /\ Len(OutputLines) = 3 /\ OutputLines[3] = NoShareMessage
    /\ ret = Return(PyBool(FALSE))

\* no share of the name, the message as the first line of the output: True
C16_WitnessMessageFirst ==
    /\ op.name = "Share.configured"
    /\ ~OutFailed
    /\ shares[op.self.name] = NoShare
    /\ OutputLines = <<NoShareMessage>>
    /\ ret = Return(PyBool(TRUE))

\* the flag and the value of an option the caller gave
C17_Given(flag, arg) == IF arg # Omitted THEN <<flag, arg.s>> ELSE <<>>

C17_GivenOptions ==
    C17_Given("-comment", op.description)
    \o C17_Given("-forcegroup", op.forcegroup)
    \o C17_Given("-dir_umask", op.dir_umask)
    \o C17_Given("-file_umask", op.file_umask)
    \o C17_Given("-umask", op.umask)

\* C17: Share.create and Share.modify send one CLI invocation whose argument list is
\* the fixed prefix ('cifs', 'shares', '-add', name, mount_point resp. 'cifs',
\* 'shares', '-change', name) followed, in the order comment, forcegroup, dir_umask,
\* file_umask, umask, by the flag and its value for exactly those options whose
\* argument the caller gave: an option not given adds nothing, an option given is
\* never dropped.
C17_ShareCommand ==
    /\ op.name = "Share.create" =>
         /\ Len(calls) = 1
         /\ CliArgs(calls[1].req)
              = <<"cifs", "shares", "-add", op.self.name, op.mount_point>>
                \o C17_GivenOptions
    /\ op.name = "Share.modify" =>
         /\ Len(calls) = 1
         /\ CliArgs(calls[1].req)
              = <<"cifs", "shares", "-change", op.self.name>> \o C17_GivenOptions

\* what a factory method of the Filer returns for a key: a handle when the key is
\* there, the value False when it is not
C18_HandleOrFalse(there, handle) ==
    IF there THEN ret = Return(handle) ELSE ret = Return(PyBool(FALSE))

\* C18: get_volume, get_export and get_share each make exactly one round trip for the
\* existence check and return a handle for the given key iff has_volume / has_export /
\* has_share is true, and the value False otherwise. A volume is absent when the check
\* faults with code 13040; an export or a share is absent by the shape of the decoded
\* response (no rule in it; the message after the two header lines) and never by an
\* error code: a fault of their check is raised to the caller.
C18_FactoryMethods ==
    /\ op.name \in {"get_volume", "get_export", "get_share"} => Len(calls) = 1
    /\ op.name = "get_volume" =>
         IF OutFailed /\ results_errno(Out) # "13040" THEN ret = OutFault
         ELSE C18_HandleOrFalse(~OutFailed,
                                [class |-> "FlexVol", name |-> <<"v", "1">>,
                                 path |-> VolPrefix \o <<"v", "1">>])
    /\ op.name = "get_export" =>
         IF OutFailed THEN ret = OutFault
         ELSE /\ C18_HandleOrFalse(ListedRule # NoneElem,
                                   [class |-> "Export", path |-> op.key])
              /\ IsObject(ret) <=> rules[op.key] # NoneElem
    /\ op.name = "get_share" =>
         IF OutFailed THEN ret = OutFault
         ELSE /\ C18_HandleOrFalse(
                     ~(Len(OutputLines) >= 3 /\ IsPrefix(NoShareMessage, OutputLines[3])),
                     [class |-> "Share", name |-> op.key])
              /\ shares[op.key] # NoShare => IsObject(ret)

\* an export that has a rule: get_export returns its handle, and the caller keeps it
C18_Witness ==
    /\ op.name = "get_export"
    /\ rules[op.key] # NoneElem
    /\ ret = Return(Export_init("filer", op.key))
    /\ handles["export2"] = ret.value

\* a volume the filer does not have: code 13040, and the value False
C18_WitnessNoVolume ==
    /\ op.name = "get_volume"
    /\ OutFailed /\ results_errno(Out) = "13040"
    /\ ret = Return(PyBool(FALSE))

\* a share the filer has: get_share returns its handle
C18_WitnessShare ==
    /\ op.name = "get_share"
    /\ shares[op.key] # NoShare
    /\ ret = Return(Share_init("filer", op.key))

\* C19: constructing a Filer makes exactly one round trip (system-get-version) whose
\* 'version' field becomes Filer.version; when that invocation is reported failed,
\* the construction raises OntapApiException with the appliance's code and reason and
\* yields no handle.
C19_FilerConstruction ==
    op.name = "Filer" =>
      /\ Len(calls) = 1
      /\ calls[1].req = ApiRequest("system-get-version", <<>>)
      /\ IF OutFailed
         THEN ret = OutFault /\ handles["filer"] = NoHandle
         ELSE /\ ret = Return([class |-> "Filer", name |-> op.hostname,
                               version |-> child_get(Out, "version").content])
              /\ handles["filer"] = ret.value

C19_Witness ==
    /\ op.name = "Filer"
    /\ OutFailed
    /\ ret = Raise(OntapApiException("13002", "Authorization failed"))
    /\ handles["filer"] = NoHandle

C19_WitnessVersion ==
    /\ op.name = "Filer"
    /\ ~OutFailed
    /\ handles["filer"].version = "NetApp Release 7.3.7"

\* the operations that give the caller a new object
C20_Constructing == {"Filer", "Export", "Share", "get_volume", "get_export", "get_share"}

\* C20: handles hold no cached appliance state. No operation changes a field of an
\* Export, FlexVol, Share or Filer object (path, name, version): an object changes at
\* no handle, and a handle gets another object only when a constructor or a factory
\* method has just returned that object. Every getter issues a fresh invocation and
\* returns the value decoded from that invocation's response, so that a getter called
\* after create_rule / modify_rule / delete_rule, through this handle or another one
\* for the same path, reflects the appliance's current rule.
C20_NoCachedState ==
    [][ /\ \A h \in HandleIds :
             handles'[h] # handles[h] =>
               /\ op'.name \in C20_Constructing
               /\ handles'[h] = ret'.value
        /\ \A h \in HandleIds :
             handles'[h] # NoHandle =>
               DOMAIN handles'[h] \in {{"class", "path"}, {"class", "name"},
                                       {"class", "name", "path"},
                                       {"class", "name", "version"}}
        /\ op'.name \in {"configured", "get_nosuid", "get_rw_hosts"} =>
             /\ Len(calls') = 1
             /\ calls'[1].req = ListRulesRequest(op'.self)
        /\ (op'.name = "configured" /\ results_status(calls'[1].out) = "passed") =>
             ret' = Return(PyBool(rules'[op'.self.path] # NoneElem))
        /\ (op'.name = "get_nosuid" /\ results_status(calls'[1].out) = "passed") =>
             ret' = (IF rules'[op'.self.path] = NoneElem THEN Return(PyStr(""))
                     ELSE Return(PyBool(child_get_string(rules'[op'.self.path],
                                                         "nosuid") = "true")))
        /\ (op'.name = "get_sis_state" /\ "handle" \in DOMAIN op'
            /\ results_status(calls'[1].out) = "passed") =>
             ret' = Return(PyStr(sis')) ]_vars

\* get_nosuid through the second handle answers False: the rule another call has
\* made with nosuid off, and both handles are the Export of the path
C20_Witness ==
    /\ op.name = "get_nosuid"
    /\ op.handle = "export2"
    /\ handles["export1"] = Export_init("filer", op.self.path)
    /\ handles["export2"] = Export_init("filer", op.self.path)
    /\ rules[op.self.path] # NoneElem
    /\ ret = Return(PyBool(FALSE))

\* C23: when no rule exists for the export path, each host-list getter of Export
\* (get_ro_hosts, get_rw_hosts, get_root_hosts) returns an empty list and raises
\* nothing.
C23_HostGettersWithoutRule ==
    ( /\ op.name \in {"get_ro_hosts", "get_rw_hosts", "get_root_hosts"}
      /\ ~OutFailed
      /\ rules[op.self.path] = NoneElem )
    => ret = Return(PyList(<<>>))

\* the exports-rule-info element the last create_rule / modify_rule sent, and the
\* lists its host parameters were bound to
RuleInfoSent ==
    child_get(child_get(calls[1].req, IF op.name = "create_rule" THEN "rules" ELSE "rule"),
              "exports-rule-info")
RuleHosts(param) == BoundHosts(op.name, param, op[param])

\* rule_info holds no element elem for an empty list, and for another list one element
\* with one exports-hostname-info per host, in the order of the list
EncodesHosts(rule_info, elem, hosts) ==
    LET e == child_get(rule_info, elem) IN
    IF hosts = <<>> THEN e = NoneElem
    ELSE /\ e # NoneElem
         /\ Len(e.children) = Len(hosts)
         /\ \A i \in 1..Len(hosts) :
              /\ e.children[i].name = "exports-hostname-info"
              /\ child_get_string(e.children[i], "name") = hosts[i]

\* rule_info asks for the security flavor: it names it, or it names none and the
\* flavor is the one the appliance gives a rule that names none
EncodesFlavor(rule_info, flavor) ==
    LET sf == child_get(rule_info, "sec-flavor") IN
    IF sf = NoneElem THEN flavor = "sys"
    ELSE child_get_string(child_get(sf, "sec-flavor-info"), "flavor") = flavor

\* create_rule and modify_rule build the same exports-rule-info from the same
\* arguments, with the nosuid flag, the pathname and the host lists in it, and differ
\* in the operation and its wrapper element
C21_SameRuleInfo ==
    op.name \in {"create_rule", "modify_rule"} =>
      /\ RuleInfoSent = CreateRuleInfo(op.self.path, op.nosuid, RuleHosts("root_hosts"),
                                       RuleHosts("ro_hosts"), RuleHosts("rw_hosts"),
                                       op.sec_flavor)
      /\ RuleInfoSent = ModifyRuleInfo(op.self.path, op.nosuid, RuleHosts("root_hosts"),
                                       RuleHosts("ro_hosts"), RuleHosts("rw_hosts"),
                                       op.sec_flavor)
      /\ child_get_string(RuleInfoSent, "nosuid") = (IF op.nosuid THEN "true" ELSE "false")
      /\ child_get_string(RuleInfoSent, "pathname") = op.self.path
      /\ EncodesHosts(RuleInfoSent, "root", RuleHosts("root_hosts"))
      /\ EncodesHosts(RuleInfoSent, "read-only", RuleHosts("ro_hosts"))
      /\ EncodesHosts(RuleInfoSent, "read-write", RuleHosts("rw_hosts"))
      /\ calls[1].req.name = (IF op.name = "create_rule" THEN "nfs-exportfs-append-rules"
                              ELSE "nfs-exportfs-modify-rule")
      /\ calls[1].req.children[2].name = (IF op.name = "create_rule" THEN "rules"
                                          ELSE "rule")

\* C21: create_rule and modify_rule, called with the same arguments, send requests
\* whose exports-rule-info subtrees are identical and encode every accepted parameter:
\* the nosuid flag, the pathname, one host-list element per non-empty list among root /
\* read-only / read-write (none for an empty list), and the requested security flavor;
\* they differ only in the operation and its wrapper element.
C21_RuleInfoEncodesArguments ==
    /\ C21_SameRuleInfo
    /\ op.name \in {"create_rule", "modify_rule"} =>
         EncodesFlavor(RuleInfoSent, op.sec_flavor)

\* C25: the shared default host lists of create_rule and modify_rule are never
\* mutated: after any sequence of create_rule / modify_rule calls with any arguments,
\* the default lists are empty, and a call that omits the host-list arguments sends a
\* request with no root, read-only or read-write element.
C25_DefaultsNeverMutated ==
    /\ defaults = DefaultHostLists
    /\ ( /\ op.name \in {"create_rule", "modify_rule"}
         /\ op.root_hosts = NotGiven /\ op.ro_hosts = NotGiven /\ op.rw_hosts = NotGiven )
       => /\ child_get(RuleInfoSent, "root") = NoneElem
          /\ child_get(RuleInfoSent, "read-only") = NoneElem
          /\ child_get(RuleInfoSent, "read-write") = NoneElem

\* a call that omits the three host lists after a call that gave read-write hosts:
\* the appliance holds the rule of the earlier call, which named a read-write host,
\* and has refused this one
C25_Witness ==
    /\ op.name = "modify_rule"
    /\ op.root_hosts = NotGiven /\ op.ro_hosts = NotGiven /\ op.rw_hosts = NotGiven
    /\ OutFailed
    /\ rules[op.self.path] # NoneElem
    /\ Filer_xmltree_to_list(rules[op.self.path], "read-write", "name") = <<"h1">>
    /\ child_get(RuleInfoSent, "read-write") = NoneElem

\* the setting a volume-autosize-set request carries, and its place in the order
AutosizeField(req) == req.children[2].name
AutosizeRank(req) ==
    CASE AutosizeField(req) = "is-enabled" -> 1
      [] AutosizeField(req) = "increment-size" -> 2
      [] AutosizeField(req) = "maximum-size" -> 3

\* C24: set_autosize_state issues its invocations in the fixed order is-enabled, then
\* increment-size, then maximum-size, and stops at the first one that faults: the
\* fault propagates, no later invocation is issued, and the changes of the earlier
\* invocations of the same call remain applied on the appliance.
C24_StopsAtFirstFault ==
    [][ op'.name = "set_autosize_state" =>
          LET n == Len(calls')
              passed(i) == results_status(calls'[i].out) = "passed"
              wanted == 1 + (IF PyTruth(op'.increment_size) THEN 1 ELSE 0)
                          + (IF PyTruth(op'.maximum_size) THEN 1 ELSE 0)
          IN
          /\ n >= 1 /\ AutosizeRank(calls'[1].req) = 1
          /\ \A i \in 1..n, j \in 1..n :
               i < j => AutosizeRank(calls'[i].req) < AutosizeRank(calls'[j].req)
          /\ \A i \in 1..(n - 1) : passed(i)
          /\ IF passed(n)
             THEN n = wanted /\ ret' = Return(PyNone)
             ELSE ret' = Raise(OntapApiException(results_errno(calls'[n].out),
                                                 results_reason(calls'[n].out)))
          /\ autosize'.enabled =
               (IF passed(1) THEN child_get_string(calls'[1].req, "is-enabled")
                ELSE autosize.enabled)
          /\ \A i \in 1..n :
               /\ (passed(i) /\ AutosizeRank(calls'[i].req) = 2) =>
                    autosize'.increment = SizeKb(op'.increment_size.s)
               /\ (passed(i) /\ AutosizeRank(calls'[i].req) = 3) =>
                    autosize'.maximum = SizeKb(op'.maximum_size.s)
          /\ (\A i \in 1..n : passed(i) => AutosizeRank(calls'[i].req) # 2) =>
               autosize'.increment = autosize.increment
          /\ (\A i \in 1..n : passed(i) => AutosizeRank(calls'[i].req) # 3) =>
               autosize'.maximum = autosize.maximum ]_vars

\* a call with the three settings whose second invocation faulted: the third was not
\* issued, autosize is on as the first asked, and the maximum is not the one given
C24_Witness ==
    /\ op.name = "set_autosize_state"
    /\ op.enabled = PyBool(TRUE)
    /\ PyTruth(op.increment_size) /\ PyTruth(op.maximum_size)
    /\ Len(calls) = 2
    /\ results_status(calls[2].out) = "failed"
    /\ ret.kind = "raise"
    /\ autosize.enabled = "true"
    /\ autosize.maximum # SizeKb(op.maximum_size.s)

\* what the getter has under the schedule name, when it returned a dict that has it
SvDecoded(r, sched) ==
    IF r.kind = "return" /\ r.value.t = "dict" /\ sched \in DOMAIN r.value.d
    THEN r.value.d[sched] ELSE <<>>

\* the round trip of everything but the hours: retention count, days of week and
\* (secondary) is-auto-update come back as set
C22_ExceptHours ==
    [][ ( /\ op.name \in {"set_sv_pri_snap_sched", "set_sv_sec_snap_sched"}
          /\ ret.kind = "return"
          /\ op'.name = (IF op.name = "set_sv_pri_snap_sched" THEN "get_sv_pri_snap_sched"
                         ELSE "get_sv_sec_snap_sched")
          /\ results_status(calls'[1].out) = "passed" )
        => LET got == SvDecoded(ret', op.sched) IN
           /\ got # <<>>
           /\ got["retention-count"] = PyInt(op.retention_ct)
           /\ got["days-of-week"] = PyStr(op.dow)
           /\ op.name = "set_sv_sec_snap_sched" =>
                got["is-auto-update"] = PyBool(op.auto_update) ]_vars

\* C22: after set_sv_pri_snap_sched(sched, retention_ct, dow, hod) (resp.
\* set_sv_sec_snap_sched with auto_update) has returned, get_sv_pri_snap_sched() (resp.
\* get_sv_sec_snap_sched()) contains an entry under the schedule name whose
\* retention-count, days-of-week, hours-of-day (and is-auto-update) equal the values
\* set.
C22_SnapSchedRoundTrip ==
    [][ ( /\ op.name \in {"set_sv_pri_snap_sched", "set_sv_sec_snap_sched"}
          /\ ret.kind = "return"
          /\ op'.name = (IF op.name = "set_sv_pri_snap_sched" THEN "get_sv_pri_snap_sched"
                         ELSE "get_sv_sec_snap_sched")
          /\ results_status(calls'[1].out) = "passed" )
        => LET got == SvDecoded(ret', op.sched) IN
           /\ got # <<>>
           /\ got["retention-count"] = PyInt(op.retention_ct)
           /\ got["days-of-week"] = PyStr(op.dow)
           /\ got["hours-of-day"] = PyStr(op.hod)
           /\ op.name = "set_sv_sec_snap_sched" =>
                got["is-auto-update"] = PyBool(op.auto_update) ]_vars

\* the script has left the datastore it was at: it is at the head of the loop for the
\* next one, past the loop, or has terminated
ScriptLeftDatastore == script.pc \in {"datastore", "secondary", "done", "raised"}

\* C26: in the backup script run without --noexec, for every datastore, every VM on
\* which the script called create_snapshot('backup') gets a delete_named_snapshot
\* attempt before the script moves to the next datastore or terminates, on every path
\* of the NetApp step: the primary snapshot succeeds, get_volume or
\* snapvault_primary_snap raises OntapApiException, or get_volume returns False.
C26_SnapshotsRemoved ==
    (script.pc # "none" /\ ~script.dry_run /\ ScriptLeftDatastore)
    => script.created \subseteq script.removed

\* C27: in the backup script run with --noexec, no state-changing call is ever made on
\* any execution path, the path where get_volume raises OntapApiException included:
\* no create_snapshot, no delete_named_snapshot, no snapvault_primary_snap and no
\* snapvault_secondary_snap.
C27_DryRunChangesNothing ==
    (script.pc # "none" /\ script.dry_run) => script.changes = {}

====
